---- MODULE Spec2Model ----
(***************************************************************************)
(* A model of cdo's two pipelines: confidence-gated rule inference (with   *)
(* the optional augmentation step) and position-aware style normalization. *)
(* Each subsystem has its own group of variables and its own               *)
(* specification; a specification keeps the other groups idle.             *)
(*                                                                         *)
(* Numbers that are floats in the source (confidences, thresholds) are     *)
(* exact fractions [num, den] here and are compared by cross               *)
(* multiplication.  Rule values, which mix strings, booleans and numbers   *)
(* in the source, are tagged records.                                      *)
(***************************************************************************)
EXTENDS Integers, Sequences, FiniteSets, TLC

VARIABLES
  \* binaryRule, called on its own
  options, rule,
  \* learning: inferProfile, then maybeAugmentProfileWithLlm
  pc, aggregate, minEvidence, minConfidence, sampledFiles, profile,
  processed, applied, llmRuleSuggestionsApplied,
  \* profile.confidenceSummary
  confidenceSummary,
  \* the path and the value of the entry of the response that the
  \* augmentation loop read last
  lastSuggestion,
  \* applying: one call of one normalizer.  replacements holds the arrays
  \* handed to applyReplacements during the call, in order; consumed lists the
  \* layout observations dequeued during the call, in order; outputs the
  \* strings returned, call after call.
  normalizer, source, referenceSource, ruleValue, indentKind, indentSize,
  replacements, consumed, outputs,
  \* applyStyle: the caller's input, the profile handed to applyBiome, the
  \* files of the target repositories and of the scratch directory (path ->
  \* content), what applyBiome read before and after, and the report
  step, input, effectiveProfile, targetFiles, scratchFiles, beforeByFile,
  afterByFile, report,
  \* aggregateSignals: the caller's list of per-file records and the result
  fileSignals, aggregated

ruleVars == <<options, rule>>
learnVars == <<pc, aggregate, minEvidence, minConfidence, sampledFiles, profile,
               processed, applied, llmRuleSuggestionsApplied, confidenceSummary,
               lastSuggestion>>
applyVars == <<normalizer, source, referenceSource, ruleValue, indentKind,
               indentSize, replacements, consumed, outputs>>
runVars == <<step, input, effectiveProfile, targetFiles, scratchFiles,
             beforeByFile, afterByFile, report>>
aggregateVars == <<fileSignals, aggregated>>
vars == <<ruleVars, learnVars, applyVars, runVars, aggregateVars>>

-----------------------------------------------------------------------------
\* Values of the source language.

\* const v = value; ...body using v: the value is computed once
With(value, Body(_)) == CHOOSE result \in {Body(bound) : bound \in {value}} : TRUE

Null == [t |-> "null"]
Str(s) == [t |-> "str", v |-> s]
Num(n) == [t |-> "num", v |-> n]
Bool(b) == [t |-> "bool", v |-> b]

\* An exact fraction num/den, den > 0.
Frac(n, d) == [num |-> n, den |-> d]
FracGeq(a, b) == a.num * b.den >= b.num * a.den
FracGt(a, b) == a.num * b.den > b.num * a.den
FracEq(a, b) == a.num * b.den = b.num * a.den
Zero == Frac(0, 1)
One == Frac(1, 1)
\* A threshold given in hundredths (0.75 is 75).
Pct(p) == Frac(p, 100)

-----------------------------------------------------------------------------
\* Bounds of the model.

MaxCount == 3
MaxMinEvidence == 3

Counts == 0 .. MaxCount
MinEvidences == 1 .. MaxMinEvidence
MinConfidences == {Pct(0), Pct(50), Pct(75), Pct(100)}

-----------------------------------------------------------------------------
\* src/core/infer.js

BinaryRuleTiesToNo(o) ==
  LET total == o.yes + o.no
      winner == IF o.yes > o.no THEN o.yes ELSE o.no
      value == IF o.yes > o.no THEN o.yesValue ELSE o.noValue
      confidence == Frac(winner, total)
      status == IF winner >= o.minEvidence /\ FracGeq(confidence, o.minConfidence)
                THEN "enforced" ELSE "undetermined"
  IN IF total = 0
     THEN [value |-> Null, status |-> "undetermined", confidence |-> Zero,
           evidenceCount |-> 0, provenance |-> o.provenance,
           autoFixSafe |-> o.autoFixSafe]
     ELSE [value |-> IF status = "enforced" THEN value ELSE Null,
           status |-> status, confidence |-> confidence,
           evidenceCount |-> winner, provenance |-> o.provenance,
           autoFixSafe |-> o.autoFixSafe]

binaryRule(o) ==
  LET total == o.yes + o.no
      winner == IF o.yes >= o.no THEN o.yes ELSE o.no
      value == IF o.yes >= o.no THEN o.yesValue ELSE o.noValue
      confidence == Frac(winner, total)
      status == IF winner >= o.minEvidence /\ FracGeq(confidence, o.minConfidence)
                THEN "enforced" ELSE "undetermined"
  IN IF total = 0
     THEN [value |-> Null, status |-> "undetermined", confidence |-> Zero,
           evidenceCount |-> 0, provenance |-> o.provenance,
           autoFixSafe |-> o.autoFixSafe]
     ELSE [value |-> IF status = "enforced" THEN value ELSE Null,
           status |-> status, confidence |-> confidence,
           evidenceCount |-> winner, provenance |-> o.provenance,
           autoFixSafe |-> o.autoFixSafe]

Max(a, b) == IF a >= b THEN a ELSE b
Min(a, b) == IF a <= b THEN a ELSE b
Abs(n) == IF n < 0 THEN -n ELSE n

\* a - b and max(a, b) on fractions (thresholds relaxed by a fixed amount)
FracSub(a, b) == Frac(a.num * b.den - b.num * a.den, a.den * b.den)
FracAdd(a, b) == Frac(a.num * b.den + b.num * a.den, a.den * b.den)
FracMax(a, b) == IF FracGeq(a, b) THEN a ELSE b

RECURSIVE GcdLoop(_, _)
GcdLoop(x, y) == IF y = 0 THEN x ELSE GcdLoop(y, x % y)

\* A variant that keeps the first width instead of the common divisor.
GcdKeepingFirst(a, b) == IF a = 0 THEN 1 ELSE Abs(a)

gcd(a, b) == LET x == GcdLoop(Abs(a), Abs(b)) IN IF x = 0 THEN 1 ELSE x

SetMin(S) == CHOOSE x \in S : \A y \in S : x <= y

RECURSIVE SumOver(_, _)
SumOver(f, S) ==
  IF S = {} THEN 0
  ELSE LET x == CHOOSE y \in S : TRUE IN f[x] + SumOver(f, S \ {x})

\* unit = gcd of the observed widths, taken in key order
RECURSIVE GcdAll(_, _)
GcdAll(unit, S) ==
  IF S = {} THEN unit
  ELSE LET m == SetMin(S) IN GcdAll(gcd(unit, m), S \ {m})

IndentCandidates == <<2, 4, 8>>

\* A variant in which a later candidate wins a tie.
RECURSIVE BestCandidateOnTies(_, _, _, _)
BestCandidateOnTies(entries, values, i, best) ==
  IF i > Len(IndentCandidates) THEN best
  ELSE LET candidate == IndentCandidates[i]
           score == SumOver(entries, {s \in values : s % candidate = 0})
       IN BestCandidateOnTies(entries, values, i + 1,
            IF score >= best.score THEN [value |-> candidate, score |-> score]
            ELSE best)

RECURSIVE BestCandidate(_, _, _, _)
BestCandidate(entries, values, i, best) ==
  IF i > Len(IndentCandidates) THEN best
  ELSE LET candidate == IndentCandidates[i]
           score == SumOver(entries, {s \in values : s % candidate = 0})
       IN BestCandidate(entries, values, i + 1,
            IF score > best.score THEN [value |-> candidate, score |-> score]
            ELSE best)

\* entries: observed indent width -> number of lines
inferIndentUnit(entries) ==
  LET values == {s \in DOMAIN entries : s > 0 /\ entries[s] > 0}
      first == SetMin(values)
      unit == GcdAll(first, values \ {first})
      best == BestCandidate(entries, values, 1, [value |-> 2, score |-> -1])
  IN IF values = {} THEN 2
     ELSE IF unit >= 2 /\ unit <= 8 THEN unit
     ELSE IF best.score > 0 THEN best.value
     ELSE SetMin(values)

\* A variant with the boundary ratio 0.15 on the spacious side.
DensityRuleStrictBoundary(blankLines, totalLines, minEv, minConf) ==
  LET compact == 100 * blankLines < 15 * totalLines
      value == IF compact THEN Str("compact") ELSE Str("spacious")
      target == IF compact THEN 12 ELSE 25
      distance == Min(Abs(100 * blankLines - target * totalLines), 20 * totalLines)
      confidence == Frac(100 * totalLines - distance, 100 * totalLines)
      status == IF totalLines >= minEv /\ FracGeq(confidence, minConf)
                THEN "enforced" ELSE "undetermined"
  IN IF totalLines = 0
     THEN [value |-> Null, status |-> "undetermined", confidence |-> Zero,
           evidenceCount |-> 0, provenance |-> "deterministic",
           autoFixSafe |-> FALSE]
     ELSE [value |-> IF status = "enforced" THEN value ELSE Null,
           status |-> status, confidence |-> confidence,
           evidenceCount |-> totalLines, provenance |-> "deterministic",
           autoFixSafe |-> FALSE]

densityRule(blankLines, totalLines, minEv, minConf) ==
  LET compact == 100 * blankLines <= 15 * totalLines
      value == IF compact THEN Str("compact") ELSE Str("spacious")
      target == IF compact THEN 12 ELSE 25
      \* |density - target| and 0.2, both over 100 * totalLines
      distance == Min(Abs(100 * blankLines - target * totalLines), 20 * totalLines)
      confidence == Frac(100 * totalLines - distance, 100 * totalLines)
      status == IF totalLines >= minEv /\ FracGeq(confidence, minConf)
                THEN "enforced" ELSE "undetermined"
  IN IF totalLines = 0
     THEN [value |-> Null, status |-> "undetermined", confidence |-> Zero,
           evidenceCount |-> 0, provenance |-> "deterministic",
           autoFixSafe |-> FALSE]
     ELSE [value |-> IF status = "enforced" THEN value ELSE Null,
           status |-> status, confidence |-> confidence,
           evidenceCount |-> totalLines, provenance |-> "deterministic",
           autoFixSafe |-> FALSE]

LineWidthCandidates == <<80, 90, 100, 110, 120, 140, 160>>

RECURSIVE FindCandidate(_, _)
FindCandidate(target, i) ==
  IF i > Len(LineWidthCandidates) THEN 160
  ELSE IF LineWidthCandidates[i] >= target THEN LineWidthCandidates[i]
  ELSE FindCandidate(target, i + 1)

inferLineWidth(maxLineLength, nonBlankLines, minEv, minConf) ==
  LET evidenceCount == Max(0, nonBlankLines)
      target == Max(80, Min(maxLineLength, 160))
      value == FindCandidate(target, 1)
      ratio == Frac(maxLineLength, value)
      confidence == FracMax(Frac(1, 2), IF FracGeq(ratio, One) THEN One ELSE ratio)
      status == IF evidenceCount >= minEv /\ FracGeq(confidence, minConf)
                THEN "enforced" ELSE "undetermined"
  IN IF maxLineLength <= 0 \/ evidenceCount = 0
     THEN [value |-> Null, status |-> "undetermined", confidence |-> Zero,
           evidenceCount |-> evidenceCount, provenance |-> "deterministic",
           autoFixSafe |-> FALSE]
     ELSE [value |-> IF status = "enforced" THEN Num(value) ELSE Null,
           status |-> status, confidence |-> confidence,
           evidenceCount |-> evidenceCount, provenance |-> "deterministic",
           autoFixSafe |-> FALSE]

\* The evidence floors inferProfile derives from the configured minEvidence.
sparseEvidence(minEv) == Max(2, minEv \div 3)
ultraSparseEvidence(minEv) == Max(2, minEv \div 5)
\* Floors with two reduced tiers only: the tenth read as the ultra-sparse one.
EvidenceFloorTwoTiers(tier, minEv) ==
  CASE tier = "full" -> minEv
    [] tier = "sparse" -> sparseEvidence(minEv)
    [] tier = "ultraSparse" -> ultraSparseEvidence(minEv)
    [] tier = "quarter" -> Max(2, minEv \div 4)
    [] tier = "tenth" -> ultraSparseEvidence(minEv)
EvidenceFloor(tier, minEv) ==
  CASE tier = "full" -> minEv
    [] tier = "sparse" -> sparseEvidence(minEv)
    [] tier = "ultraSparse" -> ultraSparseEvidence(minEv)
    [] tier = "quarter" -> Max(2, minEv \div 4)
    [] tier = "tenth" -> Max(2, minEv \div 10)

\* One row per binaryRule call of inferProfile whose counters are read
\* straight from the aggregate: yes counter, no counter, yes value, no value,
\* evidence floor, autoFixSafe.
Row(y, n, yv, nv, tier, safe) ==
  [yes |-> y, no |-> n, yesValue |-> yv, noValue |-> nv, tier |-> tier,
   autoFixSafe |-> safe]

BinaryRules ==
  ("comments.lineCommentSpacing" :>
     Row("lineCommentSpace", "lineCommentTight",
         Str("space-after-slashes"), Str("tight"), "full", TRUE)) @@
  ("comments.commentBlockFraming" :>
     Row("commentFramedBlocks", "commentPlainBlocks",
         Str("framed"), Str("plain"), "sparse", FALSE)) @@
  ("comments.trailingInlineCommentAlignment" :>
     Row("trailingInlineCommentAlignedPairs", "trailingInlineCommentUnalignedPairs",
         Str("aligned"), Str("single-space"), "ultraSparse", FALSE)) @@
  ("naming.functionWordCountPreference" :>
     Row("functionNamesSingle", "functionNamesMulti",
         Str("single-word"), Str("multi-word"), "full", FALSE)) @@
  ("naming.functionExpressionNamingPreference" :>
     Row("functionExprNamed", "functionExprAnonymous",
         Str("named"), Str("allow-anonymous"), "sparse", FALSE)) @@
  ("controlFlow.singleLineIfBraces" :>
     Row("ifWithoutBraces", "ifWithBraces",
         Str("omit"), Str("require"), "full", FALSE)) @@
  ("controlFlow.guardClauses" :>
     Row("guardClauseFunctions", "nonGuardClauseFunctions",
         Str("prefer"), Str("neutral"), "sparse", FALSE)) @@
  ("syntax.quotes" :>
     Row("quotesSingle", "quotesDouble",
         Str("single"), Str("double"), "full", FALSE)) @@
  ("syntax.semicolons" :>
     Row("semicolonsYes", "semicolonsNo",
         Str("always"), Str("never"), "full", FALSE)) @@
  ("syntax.trailingCommas" :>
     Row("trailingCommaYes", "trailingCommaNo",
         Str("always-multiline"), Str("never"), "full", FALSE)) @@
  ("syntax.variableDeclarationCommaPlacement" :>
     Row("variableDeclarationCommaLeading", "variableDeclarationCommaTrailing",
         Str("leading"), Str("trailing"), "sparse", FALSE)) @@
  ("syntax.yodaConditions" :>
     Row("yodaConditionsYes", "yodaConditionsNo",
         Str("always"), Str("never"), "sparse", FALSE)) @@
  ("syntax.multilineTernaryOperatorPlacement" :>
     Row("ternaryMultilineLeading", "ternaryMultilineTrailing",
         Str("leading"), Str("trailing"), "tenth", FALSE)) @@
  ("whitespace.indentationKind" :>
     Row("indentSpaceLines", "indentTabLines",
         Str("space"), Str("tab"), "full", TRUE)) @@
  ("whitespace.switchCaseIndentation" :>
     Row("switchCaseIndented", "switchCaseFlat",
         Str("indent"), Str("flat"), "quarter", TRUE)) @@
  ("whitespace.multilineCallArgumentLayout" :>
     Row("multilineCallArgumentCompact", "multilineCallArgumentExpanded",
         Str("compact"), Str("expanded"), "sparse", FALSE)) @@
  ("whitespace.blankLineBeforeReturn" :>
     Row("blankLineBeforeReturnYes", "blankLineBeforeReturnNo",
         Str("always"), Str("never"), "sparse", FALSE)) @@
  ("whitespace.blankLineBeforeIf" :>
     Row("blankLineBeforeIfYes", "blankLineBeforeIfNo",
         Str("always"), Str("never"), "sparse", FALSE)) @@
  ("imports.ordering" :>
     Row("importSortedGroups", "importUnsortedGroups",
         Str("alphabetical"), Str("none"), "quarter", FALSE))

\* The binaryRule calls whose counters or thresholds are computed first.
jsdocRule(agg, minEv, minConf) ==
  binaryRule([yes |-> agg.functionsWithJsdoc,
              no |-> Max(agg.functionsTotal - agg.functionsWithJsdoc, 0),
              yesValue |-> Bool(TRUE), noValue |-> Bool(FALSE),
              minEvidence |-> sparseEvidence(minEv), minConfidence |-> minConf,
              autoFixSafe |-> FALSE, provenance |-> "deterministic"])

switchCaseBreakRule(agg, minEv, minConf) ==
  binaryRule([yes |-> agg.switchCaseBreakMatchCase,
              no |-> agg.switchCaseBreakIndented,
              yesValue |-> Str("match-case"), noValue |-> Str("indent"),
              minEvidence |-> Max(2, minEv \div 4),
              minConfidence |-> FracMax(Pct(55), FracSub(minConf, Pct(20))),
              autoFixSafe |-> TRUE, provenance |-> "deterministic"])

memberExpressionRule(agg, minEv, minConf) ==
  LET memberExpressionFileVotes == agg.memberExprAlignedFiles + agg.memberExprIndentedFiles
      memberExpressionFileMinEvidence == IF minEv <= 2 THEN 1 ELSE 2
      byFiles == memberExpressionFileVotes > 0
  IN binaryRule([yes |-> IF byFiles THEN agg.memberExprAlignedFiles
                         ELSE agg.memberExprAligned,
                 no |-> IF byFiles THEN agg.memberExprIndentedFiles
                        ELSE agg.memberExprIndented,
                 yesValue |-> Str("aligned"), noValue |-> Str("indented"),
                 minEvidence |-> IF byFiles THEN memberExpressionFileMinEvidence
                                 ELSE Max(2, minEv \div 4),
                 minConfidence |-> IF byFiles
                                   THEN FracMax(Pct(60), FracSub(minConf, Pct(15)))
                                   ELSE minConf,
                 autoFixSafe |-> FALSE, provenance |-> "deterministic"])

indentationSizeRule(agg, indentationKind) ==
  LET spaces == indentationKind.status = "enforced" /\ indentationKind.value = Str("space")
  IN [value |-> IF spaces THEN Num(inferIndentUnit(agg.indentSpaceSizes)) ELSE Null,
      status |-> IF spaces THEN "enforced" ELSE "undetermined",
      confidence |-> indentationKind.confidence,
      evidenceCount |-> agg.indentSpaceLines,
      provenance |-> "deterministic",
      autoFixSafe |-> TRUE]

RulePaths ==
  DOMAIN BinaryRules \cup
  {"comments.preferJsdocForFunctions", "syntax.lineWidth",
   "whitespace.indentationSize", "whitespace.switchCaseBreakIndentation",
   "whitespace.memberExpressionIndentation", "whitespace.blankLineDensity"}

\* the same number in lowest terms
FracReduce(a) ==
  With(GcdLoop(Abs(a.num), a.den), LAMBDA divisor :
    Frac(a.num \div divisor, a.den \div divisor))

\* the sum of the confidences at the given paths
RECURSIVE SumConfidences(_, _)
SumConfidences(rules, paths) ==
  IF paths = {} THEN Zero
  ELSE With(CHOOSE q \in paths : TRUE, LAMBDA p :
         With(SumConfidences(rules, paths \ {p}), LAMBDA rest :
           With(FracAdd(rules[p].confidence, rest), LAMBDA sum : FracReduce(sum))))

\* profile.confidenceSummary as inferProfile builds it from the rules it has
\* just computed; every confidence is a finite number
confidenceSummaryOf(rules) ==
  LET sum == SumConfidences(rules, DOMAIN rules)
  IN [overall |-> FracReduce(Frac(sum.num, sum.den * Cardinality(DOMAIN rules))),
      byRule |-> [p \in DOMAIN rules |-> rules[p].confidence]]

\* profile.rules, keyed by "section.name"
inferProfile(agg, minEv, minConf) ==
  LET tableRule(p) ==
        binaryRule([yes |-> agg[BinaryRules[p].yes], no |-> agg[BinaryRules[p].no],
                    yesValue |-> BinaryRules[p].yesValue,
                    noValue |-> BinaryRules[p].noValue,
                    minEvidence |-> EvidenceFloor(BinaryRules[p].tier, minEv),
                    minConfidence |-> minConf,
                    autoFixSafe |-> BinaryRules[p].autoFixSafe,
                    provenance |-> "deterministic"])
  IN [p \in RulePaths |->
        CASE p = "comments.preferJsdocForFunctions" -> jsdocRule(agg, minEv, minConf)
          [] p = "syntax.lineWidth" ->
               inferLineWidth(agg.lineLengthMax, agg.totalLines - agg.blankLines,
                              minEv, minConf)
          [] p = "whitespace.indentationSize" ->
               indentationSizeRule(agg, tableRule("whitespace.indentationKind"))
          [] p = "whitespace.switchCaseBreakIndentation" ->
               switchCaseBreakRule(agg, minEv, minConf)
          [] p = "whitespace.memberExpressionIndentation" ->
               memberExpressionRule(agg, minEv, minConf)
          [] p = "whitespace.blankLineDensity" ->
               densityRule(agg.blankLines, agg.totalLines, minEv, minConf)
          [] OTHER -> tableRule(p)]

-----------------------------------------------------------------------------
\* src/core/llm-augment.js

Known(vals, safe) == [values |-> vals, autoFixSafe |-> safe]

KNOWN_RULES ==
  ("comments.lineCommentSpacing" :> Known({Str("space-after-slashes"), Str("tight")}, TRUE)) @@
  ("comments.preferJsdocForFunctions" :> Known({Bool(TRUE), Bool(FALSE)}, FALSE)) @@
  ("comments.commentBlockFraming" :> Known({Str("framed"), Str("plain")}, FALSE)) @@
  ("comments.trailingInlineCommentAlignment" :> Known({Str("aligned"), Str("single-space")}, FALSE)) @@
  ("naming.functionWordCountPreference" :> Known({Str("single-word"), Str("multi-word")}, FALSE)) @@
  ("naming.functionExpressionNamingPreference" :> Known({Str("named"), Str("allow-anonymous")}, FALSE)) @@
  ("controlFlow.singleLineIfBraces" :> Known({Str("omit"), Str("require")}, FALSE)) @@
  ("controlFlow.guardClauses" :> Known({Str("prefer"), Str("neutral")}, FALSE)) @@
  ("syntax.quotes" :> Known({Str("single"), Str("double")}, FALSE)) @@
  ("syntax.semicolons" :> Known({Str("always"), Str("never")}, FALSE)) @@
  ("syntax.trailingCommas" :> Known({Str("always-multiline"), Str("never")}, FALSE)) @@
  ("syntax.variableDeclarationCommaPlacement" :> Known({Str("leading"), Str("trailing")}, FALSE)) @@
  ("syntax.yodaConditions" :> Known({Str("always"), Str("never")}, TRUE)) @@
  ("syntax.multilineTernaryOperatorPlacement" :> Known({Str("leading"), Str("trailing")}, FALSE)) @@
  ("syntax.lineWidth" :> Known({}, FALSE)) @@
  ("whitespace.indentationKind" :> Known({Str("space"), Str("tab")}, TRUE)) @@
  ("whitespace.indentationSize" :> Known({}, TRUE)) @@
  ("whitespace.switchCaseIndentation" :> Known({Str("indent"), Str("flat")}, TRUE)) @@
  ("whitespace.switchCaseBreakIndentation" :> Known({Str("match-case"), Str("indent")}, TRUE)) @@
  ("whitespace.memberExpressionIndentation" :> Known({Str("aligned"), Str("indented")}, FALSE)) @@
  ("whitespace.multilineCallArgumentLayout" :> Known({Str("compact"), Str("expanded")}, FALSE)) @@
  ("whitespace.blankLineDensity" :> Known({Str("compact"), Str("spacious")}, FALSE)) @@
  ("whitespace.blankLineBeforeReturn" :> Known({Str("always"), Str("never")}, FALSE)) @@
  ("whitespace.blankLineBeforeIf" :> Known({Str("always"), Str("never")}, FALSE)) @@
  ("imports.ordering" :> Known({Str("alphabetical"), Str("none")}, FALSE))

\* Numbers a suggestion may carry besides integers (Num): a non-integer
\* num/den, NaN and Infinity.
NonInteger(n, d) == [t |-> "frac", num |-> n, den |-> d]
NaN == [t |-> "nan"]
Infinity == [t |-> "inf"]

\* Math.round: floor(x + 1/2)
Round(n, d) == (2 * n + d) \div (2 * d)

\* value: a suggested confidence, or Null when the suggestion has none
clamp01(value) ==
  IF value = Null THEN Zero
  ELSE IF value = NaN \/ value = Infinity THEN Zero
  ELSE IF value.num < 0 THEN Zero
  ELSE IF value.num > value.den THEN One
  ELSE value

readRule(path, prof) == IF path \in DOMAIN prof THEN prof[path] ELSE Null

writeRule(path, prof, next) ==
  IF path \in DOMAIN prof THEN [prof EXCEPT ![path] = next] ELSE prof

ShouldReplaceNoMargin(existing, next) ==
  \/ existing = Null
  \/ existing.status # "enforced" /\ next.status = "enforced"
  \/ /\ existing.status = next.status
     /\ FracGeq(next.confidence, existing.confidence)

ShouldReplaceIgnoringStatus(existing, next) ==
  \/ existing = Null
  \/ FracGeq(next.confidence, FracAdd(existing.confidence, Pct(5)))

shouldReplace(existing, next) ==
  \/ existing = Null
  \/ existing.status # "enforced" /\ next.status = "enforced"
  \/ /\ existing.status = next.status
     /\ FracGeq(next.confidence, FracAdd(existing.confidence, Pct(5)))

normalizeValue(value, descriptor) ==
  IF descriptor.values = {}
  THEN CASE value.t = "num" -> Num(Max(0, Round(value.v, 1)))
         [] value.t = "frac" -> Num(Max(0, Round(value.num, value.den)))
         [] OTHER -> Null
  ELSE IF value \in descriptor.values THEN value ELSE Null

NextRuleKeepsValue(suggestion, descriptor, files, minEv, minConf) ==
  LET normalizedValue == normalizeValue(suggestion.value, descriptor)
      confidence == clamp01(suggestion.confidence)
      evidenceCount == IF suggestion.evidenceCount = Null THEN files
                       ELSE Max(0, suggestion.evidenceCount.v)
      status == IF evidenceCount >= minEv /\ FracGeq(confidence, minConf)
                THEN "enforced" ELSE "undetermined"
  IN [value |-> normalizedValue,
      status |-> status, confidence |-> confidence,
      evidenceCount |-> evidenceCount, provenance |-> "llm_augmented",
      autoFixSafe |-> descriptor.autoFixSafe]

NextRuleDeterministic(suggestion, descriptor, files, minEv, minConf) ==
  LET normalizedValue == normalizeValue(suggestion.value, descriptor)
      confidence == clamp01(suggestion.confidence)
      evidenceCount == IF suggestion.evidenceCount = Null THEN files
                       ELSE Max(0, suggestion.evidenceCount.v)
      status == IF evidenceCount >= minEv /\ FracGeq(confidence, minConf)
                THEN "enforced" ELSE "undetermined"
  IN [value |-> IF status = "enforced" THEN normalizedValue ELSE Null,
      status |-> status, confidence |-> confidence,
      evidenceCount |-> evidenceCount, provenance |-> "deterministic",
      autoFixSafe |-> descriptor.autoFixSafe]

\* The rule a suggestion resolves to (maybeAugmentProfileWithLlm 222-239).
nextRule(suggestion, descriptor, files, minEv, minConf) ==
  LET normalizedValue == normalizeValue(suggestion.value, descriptor)
      confidence == clamp01(suggestion.confidence)
      evidenceCount == IF suggestion.evidenceCount = Null THEN files
                       ELSE Max(0, suggestion.evidenceCount.v)
      status == IF evidenceCount >= minEv /\ FracGeq(confidence, minConf)
                THEN "enforced" ELSE "undetermined"
  IN [value |-> IF status = "enforced" THEN normalizedValue ELSE Null,
      status |-> status, confidence |-> confidence,
      evidenceCount |-> evidenceCount, provenance |-> "llm_augmented",
      autoFixSafe |-> descriptor.autoFixSafe]

-----------------------------------------------------------------------------
\* src/apply/style-normalization.js: text helpers.  A source string is a
\* sequence of one-character strings; offsets are 0-based as in the source.

\* String.prototype.slice(from, to) for 0 <= from
Slice(s, from, to) ==
  LET a == Min(Max(from, 0), Len(s))
      b == Min(Max(to, 0), Len(s))
  IN IF b <= a THEN <<>> ELSE SubSeq(s, a + 1, b)

SliceFrom(s, from) == Slice(s, from, Len(s))

\* source[index]
CharAt(s, index) == IF index >= 0 /\ index < Len(s) THEN s[index + 1] ELSE ""

Includes(s, ch) == \E i \in 1 .. Len(s) : s[i] = ch

Repeat(ch, n) == [i \in 1 .. Max(0, n) |-> ch]

\* source.split('\n'), continuing the line read so far
RECURSIVE SplitLines(_, _)
SplitLines(s, line) ==
  IF s = <<>> THEN <<line>>
  ELSE IF Head(s) = "\n" THEN <<line>> \o SplitLines(Tail(s), <<>>)
  ELSE SplitLines(Tail(s), Append(line, Head(s)))

\* offsets of the line starts, in order
RECURSIVE lineOffsetsFrom(_, _)
lineOffsetsFrom(s, index) ==
  IF index >= Len(s) THEN <<>>
  ELSE IF s[index + 1] = "\n" THEN <<index + 1>> \o lineOffsetsFrom(s, index + 1)
  ELSE lineOffsetsFrom(s, index + 1)

lineOffsets(s) == <<0>> \o lineOffsetsFrom(s, 0)

indentForColumn(column, kind, unit) ==
  IF kind # "tab" THEN Repeat(" ", column)
  ELSE LET size == Max(1, IF unit = 0 THEN 2 ELSE unit)
       IN Repeat("\t", column \div size) \o Repeat(" ", column % size)

\* [...replacements].sort((a, b) => b.start - a.start): stable, descending
RECURSIVE InsertByStartDesc(_, _)
InsertByStartDesc(sorted, r) ==
  IF sorted = <<>> THEN <<r>>
  ELSE IF r.start > Head(sorted).start THEN <<r>> \o sorted
  ELSE <<Head(sorted)>> \o InsertByStartDesc(Tail(sorted), r)

RECURSIVE SortByStartDesc(_)
SortByStartDesc(rs) ==
  IF rs = <<>> THEN <<>>
  ELSE InsertByStartDesc(SortByStartDesc(SubSeq(rs, 1, Len(rs) - 1)), rs[Len(rs)])

RECURSIVE InsertByStartAsc(_, _)
InsertByStartAsc(sorted, r) ==
  IF sorted = <<>> THEN <<r>>
  ELSE IF r.start < Head(sorted).start THEN <<r>> \o sorted
  ELSE <<Head(sorted)>> \o InsertByStartAsc(Tail(sorted), r)

RECURSIVE SortByStartAsc(_)
SortByStartAsc(rs) ==
  IF rs = <<>> THEN <<>>
  ELSE InsertByStartAsc(SortByStartAsc(SubSeq(rs, 1, Len(rs) - 1)), rs[Len(rs)])

\* The loop as the documentation describes it: a range of zero length is
\* skipped like an inverted one.
RECURSIVE ApplySortedDroppingEmpty(_, _)
ApplySortedDroppingEmpty(next, sorted) ==
  IF sorted = <<>> THEN next
  ELSE LET replacement == Head(sorted)
       IN IF replacement.start < 0 \/ replacement.end <= replacement.start
          THEN ApplySortedDroppingEmpty(next, Tail(sorted))
          ELSE ApplySortedDroppingEmpty(
                 Slice(next, 0, replacement.start) \o replacement.text \o
                   SliceFrom(next, replacement.end),
                 Tail(sorted))

RECURSIVE ApplySorted(_, _)
ApplySorted(next, sorted) ==
  IF sorted = <<>> THEN next
  ELSE LET replacement == Head(sorted)
       IN IF replacement.start < 0 \/ replacement.end < replacement.start
          THEN ApplySorted(next, Tail(sorted))
          ELSE ApplySorted(Slice(next, 0, replacement.start) \o replacement.text \o
                             SliceFrom(next, replacement.end),
                           Tail(sorted))

ApplyReplacementsAscending(s, rs) ==
  IF rs = <<>> THEN s ELSE ApplySorted(s, SortByStartAsc(rs))

applyReplacements(s, rs) ==
  IF rs = <<>> THEN s ELSE ApplySorted(s, SortByStartDesc(rs))

-----------------------------------------------------------------------------
\* The parser's AST as JSON values, and nodeSignature over it.

JObj(entries) == [t |-> "obj", entries |-> entries]
JArr(items) == [t |-> "arr", items |-> items]
Entry(key, value) == [key |-> key, value |-> value]

DroppedKeysKeepingExtra ==
  {"start", "end", "range", "loc",
   "leadingComments", "trailingComments", "innerComments"}

DroppedKeys ==
  {"start", "end", "range", "loc", "extra",
   "leadingComments", "trailingComments", "innerComments"}

RECURSIVE sanitizeForSignature(_)
RECURSIVE SanitizeEntries(_)

SanitizeEntries(entries) ==
  IF entries = <<>> THEN <<>>
  ELSE IF Head(entries).key \in DroppedKeys THEN SanitizeEntries(Tail(entries))
  ELSE <<Entry(Head(entries).key, sanitizeForSignature(Head(entries).value))>>
         \o SanitizeEntries(Tail(entries))

sanitizeForSignature(value) ==
  IF value.t = "arr"
  THEN JArr([i \in 1 .. Len(value.items) |-> sanitizeForSignature(value.items[i])])
  ELSE IF value.t # "obj" THEN value
  ELSE JObj(SanitizeEntries(value.entries))

\* JSON.stringify, as the sequence of the tokens of its output
RECURSIVE Stringify(_)
RECURSIVE StringifyItems(_)
RECURSIVE StringifyEntries(_)

StringifyItems(items) ==
  IF items = <<>> THEN <<>>
  ELSE Stringify(Head(items))
         \o (IF Len(items) > 1 THEN <<",">> ELSE <<>>)
         \o StringifyItems(Tail(items))

StringifyEntries(entries) ==
  IF entries = <<>> THEN <<>>
  ELSE <<"\"", Head(entries).key, "\"", ":">> \o Stringify(Head(entries).value)
         \o (IF Len(entries) > 1 THEN <<",">> ELSE <<>>)
         \o StringifyEntries(Tail(entries))

Stringify(value) ==
  CASE value.t = "obj" -> <<"{">> \o StringifyEntries(value.entries) \o <<"}">>
    [] value.t = "arr" -> <<"[">> \o StringifyItems(value.items) \o <<"]">>
    [] value.t = "str" -> <<"\"", value.v, "\"">>
    [] value.t = "num" -> <<ToString(value.v)>>
    [] value.t = "bool" -> <<ToString(value.v)>>
    [] OTHER -> <<"null">>

nodeSignature(node) == Stringify(sanitizeForSignature(node))

\* Code as the parser reads it: an expression (its shape) written in one of
\* several formattings.  A shape is a literal or a binary expression over
\* literals; a formatting is the column the expression starts at, a comment
\* before it, parentheses around its first literal and the way each literal
\* is spelled.
Literal(value) == [kind |-> "literal", value |-> value]
Binary(operator, left, right) ==
  [kind |-> "binary", operator |-> operator, left |-> left, right |-> right]

LiteralValues == {Num(1), Num(2), Infinity, Str("1")}
Operators == {"+", "-"}
Literals == {Literal(v) : v \in LiteralValues}
Shapes ==
  Literals \cup {Binary(op, l, r) : op \in Operators, l \in Literals, r \in Literals}
Formattings ==
  [column : {0, 1}, commented : BOOLEAN, parenthesized : BOOLEAN, spelling : {1, 2}]
Codes == [shape : Shapes, formatting : Formattings]

\* the text of a literal in either spelling: 1 or 1.0, 1e999 or 2e999, '1' or "1"
Raw(value, spelling) ==
  CASE value.t = "num" ->
         IF spelling = 1 THEN ToString(value.v) ELSE ToString(value.v) \o ".0"
    [] value.t = "str" ->
         IF spelling = 1 THEN "'" \o value.v \o "'" ELSE "\"" \o value.v \o "\""
    [] OTHER -> IF spelling = 1 THEN "1e999" ELSE "2e999"

RawLength(value, spelling) ==
  CASE value.t = "num" -> IF spelling = 1 THEN 1 ELSE 3
    [] value.t = "str" -> 3
    [] OTHER -> 5

Position(line, column, index) ==
  JObj(<<Entry("line", Num(line)), Entry("column", Num(column)),
         Entry("index", Num(index))>>)

Located(type, start, end) ==
  <<Entry("type", Str(type)), Entry("start", Num(start)), Entry("end", Num(end)),
    Entry("loc", JObj(<<Entry("start", Position(1, start, start)),
                        Entry("end", Position(1, end, end))>>)),
    Entry("range", JArr(<<Num(start), Num(end)>>))>>

CommentBlock == JObj(Located("CommentBlock", 0, 5) \o <<Entry("value", Str("c"))>>)

LiteralNode(value, start, spelling, commented, parenthesized) ==
  JObj(Located(IF value.t = "str" THEN "StringLiteral" ELSE "NumericLiteral",
               start, start + RawLength(value, spelling))
         \o (IF commented THEN <<Entry("leadingComments", JArr(<<CommentBlock>>))>>
             ELSE <<>>)
         \o <<Entry("extra",
               JObj(<<Entry("rawValue", value), Entry("raw", Str(Raw(value, spelling)))>>
                      \o (IF parenthesized
                          THEN <<Entry("parenthesized", Bool(TRUE)),
                                 Entry("parenStart", Num(start - 1))>>
                          ELSE <<>>))),
              Entry("value", value)>>)

\* parse(): the node of the expression, positions counted on the given text
ParseExpression(code) ==
  LET f == code.formatting
      open == (IF f.commented THEN 5 ELSE 0) + f.column
      first == open + (IF f.parenthesized THEN 1 ELSE 0)
  IN IF code.shape.kind = "literal"
     THEN LiteralNode(code.shape.value, first, f.spelling, f.commented, f.parenthesized)
     ELSE LET leftEnd == first + RawLength(code.shape.left.value, f.spelling)
                           + (IF f.parenthesized THEN 1 ELSE 0)
              rightStart == leftEnd + 3
              rightEnd == rightStart + RawLength(code.shape.right.value, f.spelling)
          IN JObj(Located("BinaryExpression", open, rightEnd)
                    \o (IF f.commented
                        THEN <<Entry("leadingComments", JArr(<<CommentBlock>>))>>
                        ELSE <<>>)
                    \o <<Entry("left", LiteralNode(code.shape.left.value, first,
                                                   f.spelling, FALSE, f.parenthesized)),
                         Entry("operator", Str(code.shape.operator)),
                         Entry("right", LiteralNode(code.shape.right.value, rightStart,
                                                    f.spelling, FALSE, FALSE))>>)

-----------------------------------------------------------------------------
\* Source text of the normalizers: a sequence of characters.  A letter stands
\* for a whole token of the program text (S: "switch (x) {", C: "case 1:",
\* B: "break;", s: any other statement), so a column counts tokens.

IsWhitespace(ch) == ch \in {" ", "\t", "\n"}

\* what parseAst returns for a program (null otherwise), and the replacements
\* array of a pass that got as far as collecting
Ast(body) == [t |-> "ast", body |-> body]
Edits(list) == [t |-> "edits", list |-> list]

\* node.loc.start of the character at a 0-based index
RECURSIVE LineStartBefore(_, _)
LineStartBefore(s, index) ==
  IF index = 0 THEN 0
  ELSE IF s[index] = "\n" THEN index
  ELSE LineStartBefore(s, index - 1)

ColumnAt(s, index) == index - LineStartBefore(s, index)

RECURSIVE LineAt(_, _)
LineAt(s, index) ==
  IF index = 0 THEN 1
  ELSE LineAt(s, index - 1) + (IF s[index] = "\n" THEN 1 ELSE 0)

Loc(s, index) == [line |-> LineAt(s, index), column |-> ColumnAt(s, index)]

\* indentSize || 2, floored at 1
IndentStep(unit) == Max(1, IF unit = 0 THEN 2 ELSE unit)

\* The switch statement of a source: its cases in source order, each with the
\* position of its label and of the break statements among its consequents;
\* Null when the text is not a program.
RECURSIVE ScanSwitch(_, _, _, _)
ScanSwitch(s, index, stage, cases) ==
  IF index >= Len(s) THEN (IF stage = "after" THEN Ast(cases) ELSE Null)
  ELSE LET ch == s[index + 1] IN
    IF IsWhitespace(ch) THEN ScanSwitch(s, index + 1, stage, cases)
    ELSE IF stage = "before"
    THEN IF ch = "S" THEN ScanSwitch(s, index + 1, "in", cases) ELSE Null
    ELSE IF stage = "after" THEN Null
    ELSE CASE ch = "C" ->
                ScanSwitch(s, index + 1, stage,
                           Append(cases, [loc |-> Loc(s, index), breaks |-> <<>>]))
           [] ch = "}" -> ScanSwitch(s, index + 1, "after", cases)
           [] ch \in {"B", "s"} /\ cases # <<>> ->
                ScanSwitch(s, index + 1, stage,
                  IF ch = "s" THEN cases
                  ELSE [cases EXCEPT ![Len(cases)].breaks = Append(@, Loc(s, index))])
           [] OTHER -> Null

ParseSwitch(s) == ScanSwitch(s, 0, "before", <<>>)

\* the replacements of one SwitchCase visit
RECURSIVE BreakReplacements(_, _, _, _, _)
BreakReplacements(breaks, desiredColumn, offsets, kind, unit) ==
  IF breaks = <<>> THEN <<>>
  ELSE LET break == Head(breaks)
           lineStart == offsets[break.line]
           rest == BreakReplacements(Tail(breaks), desiredColumn, offsets, kind, unit)
       IN IF break.column = desiredColumn THEN rest
          ELSE <<[start |-> lineStart,
                  end |-> lineStart + break.column,
                  text |-> indentForColumn(desiredColumn, kind, unit)]>> \o rest

RECURSIVE SwitchCaseReplacements(_, _, _, _, _)
SwitchCaseReplacements(cases, style, offsets, kind, unit) ==
  IF cases = <<>> THEN <<>>
  ELSE LET caseColumn == Head(cases).loc.column
           desiredColumn == IF style = Str("match-case") THEN caseColumn
                            ELSE caseColumn + IndentStep(unit)
       IN BreakReplacements(Head(cases).breaks, desiredColumn, offsets, kind, unit)
            \o SwitchCaseReplacements(Tail(cases), style, offsets, kind, unit)

\* applySwitchCaseBreakIndentation: the replacements it collects (Null when it
\* returns before collecting) and the string it returns
SwitchCaseBreakEdits(s, style, kind, unit) ==
  IF style = Null THEN Null
  ELSE IF ParseSwitch(s) = Null THEN Null
  ELSE Edits(SwitchCaseReplacements(ParseSwitch(s).body, style, lineOffsets(s),
                                    kind, unit))

applySwitchCaseBreakIndentation(s, style, kind, unit) ==
  LET edits == SwitchCaseBreakEdits(s, style, kind, unit)
  IN IF edits = Null THEN s ELSE applyReplacements(s, edits.list)

-----------------------------------------------------------------------------
\* The parser over expression statements.  A lower-case letter is an
\* identifier; ".m" stands for the call ".m()" of a property; "#" is a
\* comment; every statement ends with ";".

Atoms == {"a", "b", "c", "d", "e", "m", "n", "o"}
IsComment(ch) == ch = "#"

PositionAt(s, index) == Position(LineAt(s, index), ColumnAt(s, index), index)

NodeAt(type, s, start, end, fields) ==
  JObj(<<Entry("type", Str(type)), Entry("start", Num(start)), Entry("end", Num(end)),
         Entry("loc", JObj(<<Entry("start", PositionAt(s, start)),
                             Entry("end", PositionAt(s, end))>>)),
         Entry("range", JArr(<<Num(start), Num(end)>>))>> \o fields)

\* node[key]
Get(node, key) ==
  node.entries[CHOOSE i \in 1 .. Len(node.entries) : node.entries[i].key = key].value

TypeOf(node) == Get(node, "type").v
StartOf(node) == Get(node, "start").v
EndOf(node) == Get(node, "end").v
StartLine(node) == Get(Get(Get(node, "loc"), "start"), "line").v
StartColumn(node) == Get(Get(Get(node, "loc"), "start"), "column").v
EndLine(node) == Get(Get(Get(node, "loc"), "end"), "line").v

Parsed(node, next) == [t |-> "parsed", node |-> node, next |-> next]

RECURSIVE SkipTrivia(_, _)
SkipTrivia(s, index) ==
  IF index < Len(s) /\ (IsWhitespace(s[index + 1]) \/ IsComment(s[index + 1]))
  THEN SkipTrivia(s, index + 1)
  ELSE index

TokenIs(s, index, tokens) == index < Len(s) /\ s[index + 1] \in tokens

\* the nodes the parser builds
IdentifierNode(s, at) ==
  NodeAt("Identifier", s, at, at + 1, <<Entry("name", Str(s[at + 1]))>>)

MemberNode(s, object, at) ==
  NodeAt("MemberExpression", s, StartOf(object), at + 1,
         <<Entry("object", object), Entry("computed", Bool(FALSE)),
           Entry("property", IdentifierNode(s, at))>>)

CallNode(s, object, at) ==
  NodeAt("CallExpression", s, StartOf(object), at + 1,
         <<Entry("callee", MemberNode(s, object, at)), Entry("arguments", JArr(<<>>))>>)

ConditionalNode(s, test, consequent, alternate) ==
  NodeAt("ConditionalExpression", s, StartOf(test), EndOf(alternate),
         <<Entry("test", test), Entry("consequent", consequent),
           Entry("alternate", alternate)>>)

\* object.m().n()...: each link a CallExpression whose callee is a
\* MemberExpression
RECURSIVE ParseLinks(_, _, _)
ParseLinks(s, object, next) ==
  With(SkipTrivia(s, next), LAMBDA dot :
    IF ~TokenIs(s, dot, {"."}) THEN Parsed(object, next)
    ELSE With(SkipTrivia(s, dot + 1), LAMBDA at :
      IF ~TokenIs(s, at, Atoms) THEN Null
      ELSE ParseLinks(s, CallNode(s, object, at), at + 1)))

ParseChain(s, from) ==
  With(SkipTrivia(s, from), LAMBDA at :
    IF ~TokenIs(s, at, Atoms) THEN Null
    ELSE ParseLinks(s, IdentifierNode(s, at), at + 1))

RECURSIVE ParseConditional(_, _)
ParseConditional(s, from) ==
  With(ParseChain(s, from), LAMBDA test :
    IF test = Null THEN Null
    ELSE With(SkipTrivia(s, test.next), LAMBDA question :
      IF ~TokenIs(s, question, {"?"}) THEN test
      ELSE With(ParseConditional(s, question + 1), LAMBDA consequent :
        IF consequent = Null THEN Null
        ELSE With(SkipTrivia(s, consequent.next), LAMBDA colon :
          IF ~TokenIs(s, colon, {":"}) THEN Null
          ELSE With(ParseConditional(s, colon + 1), LAMBDA alternate :
            IF alternate = Null THEN Null
            ELSE Parsed(ConditionalNode(s, test.node, consequent.node,
                                        alternate.node),
                        alternate.next))))))

RECURSIVE ParseStatements(_, _, _)
ParseStatements(s, from, body) ==
  With(SkipTrivia(s, from), LAMBDA at :
    IF at >= Len(s) THEN Ast(body)
    ELSE With(ParseConditional(s, at), LAMBDA expression :
      IF expression = Null THEN Null
      ELSE With(SkipTrivia(s, expression.next), LAMBDA semicolon :
        IF ~TokenIs(s, semicolon, {";"}) THEN Null
        ELSE ParseStatements(s, semicolon + 1, Append(body, expression.node)))))

\* parseAst over expression statements: Ast(the expressions in order), or Null
parseAst(s) == ParseStatements(s, 0, <<>>)

\* traverse: the nodes of one type under a node, parents before children,
\* children in the order of the node's keys
RECURSIVE NodesOfType(_, _)
RECURSIVE NodesOfTypeIn(_, _)
NodesOfTypeIn(nodes, type) ==
  IF nodes = <<>> THEN <<>>
  ELSE NodesOfType(Head(nodes), type) \o NodesOfTypeIn(Tail(nodes), type)

NodesOfType(node, type) ==
  (IF TypeOf(node) = type THEN <<node>> ELSE <<>>) \o
    CASE TypeOf(node) = "ConditionalExpression" ->
           NodesOfTypeIn(<<Get(node, "test"), Get(node, "consequent"),
                           Get(node, "alternate")>>, type)
      [] TypeOf(node) = "CallExpression" -> NodesOfType(Get(node, "callee"), type)
      [] TypeOf(node) = "MemberExpression" -> NodesOfType(Get(node, "object"), type)
      [] OTHER -> <<>>

IndexOf(s, ch) ==
  IF Includes(s, ch) THEN (CHOOSE i \in 1 .. Len(s) :
                             s[i] = ch /\ \A j \in 1 .. i - 1 : s[j] # ch) - 1
  ELSE -1

RECURSIVE Trim(_)
Trim(s) ==
  IF s # <<>> /\ IsWhitespace(Head(s)) THEN Trim(Tail(s))
  ELSE IF s # <<>> /\ IsWhitespace(s[Len(s)]) THEN Trim(SubSeq(s, 1, Len(s) - 1))
  ELSE s

HasComment(s) == \E i \in 1 .. Len(s) : IsComment(s[i])

-----------------------------------------------------------------------------
\* Reference layouts: a Map from signature to a queue of observations.

EmptyMap == [key \in {} |-> <<>>]
MapGet(map, key) == IF key \in DOMAIN map THEN map[key] ELSE <<>>
MapSet(map, key, queue) ==
  [k \in DOMAIN map \cup {key} |-> IF k = key THEN queue ELSE map[k]]

\* queue = layouts.get(key) ?? []; queue.push(observation); layouts.set(key, queue)
Enqueue(map, key, observation) == MapSet(map, key, Append(MapGet(map, key), observation))

\* What one call of a normalizer did: the string it returned, the arrays it
\* handed to applyReplacements and the observations it dequeued.
Outcome(output, arrays, dequeued) ==
  [output |-> output, replacements |-> arrays, consumed |-> dequeued]
Unchanged(s) == Outcome(s, <<>>, <<>>)
Applied(s, array, dequeued) == Outcome(applyReplacements(s, array), <<array>>, dequeued)

\* what queue.shift() leaves in the queue
ShiftNothing(queue) == queue

Shift(queue) == Tail(queue)

\* A dequeued observation: the signature, the position of the construct of
\* the current source in traversal order, the observation, and whether the
\* construct was then rewritten.
Dequeued(key, construct, observation, used) ==
  [key |-> key, construct |-> construct, observation |-> observation, used |-> used]

-----------------------------------------------------------------------------
\* Ternary layout

ternaryOperatorInfo(s, start, end, operator) ==
  LET between == Slice(s, start, end)
      index == IndexOf(between, operator)
  IN IF index = -1 THEN Null
     ELSE [column |-> ColumnAt(s, start + index),
           leading |-> Includes(Slice(between, 0, index), "\n")]

ternaryPlacement(s, node) ==
  IF StartLine(node) = EndLine(node) THEN Null
  ELSE LET question == ternaryOperatorInfo(s, EndOf(Get(node, "test")),
                                          StartOf(Get(node, "consequent")), "?")
           colon == ternaryOperatorInfo(s, EndOf(Get(node, "consequent")),
                                        StartOf(Get(node, "alternate")), ":")
       IN IF question = Null \/ colon = Null THEN Null
          ELSE [placement |-> IF question.leading \/ colon.leading
                              THEN "leading" ELSE "trailing",
                questionColumn |-> question.column,
                colonColumn |-> colon.column]

\* origin: the position, in traversal order, of the construct of the
\* reference the observation was read from
RECURSIVE CollectTernaryLayouts(_, _, _, _)
CollectTernaryLayouts(s, nodes, index, layouts) ==
  IF index > Len(nodes) THEN layouts
  ELSE CollectTernaryLayouts(s, nodes, index + 1,
         With(ternaryPlacement(s, nodes[index]), LAMBDA info :
           IF info = Null THEN layouts
           ELSE Enqueue(layouts, nodeSignature(nodes[index]),
                        [layout |-> info, origin |-> index])))

collectReferenceTernaryLayouts(referenceText) ==
  With(parseAst(referenceText), LAMBDA ast :
    IF ast = Null THEN EmptyMap
    ELSE CollectTernaryLayouts(referenceText,
                               NodesOfTypeIn(ast.body, "ConditionalExpression"),
                               1, EmptyMap))

\* the checks between queue.shift() and replacements.push()
TernaryEligible(s, node) ==
  LET test == Get(node, "test")
      consequent == Get(node, "consequent")
      alternate == Get(node, "alternate")
  IN /\ StartLine(node) = EndLine(node)
     /\ ~HasComment(Slice(s, EndOf(test), StartOf(consequent)))
     /\ ~HasComment(Slice(s, EndOf(consequent), StartOf(alternate)))
     /\ \A part \in {test, consequent, alternate} :
          LET text == Trim(Slice(s, StartOf(part), EndOf(part)))
          IN text # <<>> /\ ~Includes(text, "\n")

TernaryReplacement(s, node, reference, kind, unit) ==
  LET text(part) == Trim(Slice(s, StartOf(Get(node, part)), EndOf(Get(node, part))))
  IN [start |-> StartOf(node),
      end |-> EndOf(node),
      text |-> text("test") \o <<"\n">>
                 \o indentForColumn(reference.questionColumn, kind, unit)
                 \o <<"?", " ">> \o text("consequent") \o <<"\n">>
                 \o indentForColumn(reference.colonColumn, kind, unit)
                 \o <<":", " ">> \o text("alternate")]

RECURSIVE VisitTernaries(_, _, _, _, _, _, _, _)
VisitTernaries(s, nodes, index, layouts, array, dequeued, kind, unit) ==
  IF index > Len(nodes) THEN Applied(s, array, dequeued)
  ELSE With(nodeSignature(nodes[index]), LAMBDA key :
         With(MapGet(layouts, key), LAMBDA queue :
           IF queue = <<>>
           THEN VisitTernaries(s, nodes, index + 1, layouts, array, dequeued,
                               kind, unit)
           ELSE With(TernaryEligible(s, nodes[index]), LAMBDA eligible :
                  VisitTernaries(s, nodes, index + 1,
                    MapSet(layouts, key, Shift(queue)),
                    IF eligible
                    THEN Append(array, TernaryReplacement(s, nodes[index],
                                                          Head(queue).layout,
                                                          kind, unit))
                    ELSE array,
                    Append(dequeued, Dequeued(key, index, Head(queue), eligible)),
                    kind, unit))))

applyReferenceTernaryLayouts(s, placement, kind, unit, referenceLayouts) ==
  IF DOMAIN referenceLayouts = {} \/ placement # Str("leading") THEN Unchanged(s)
  ELSE With(parseAst(s), LAMBDA ast :
         IF ast = Null THEN Unchanged(s)
         ELSE VisitTernaries(s, NodesOfTypeIn(ast.body, "ConditionalExpression"),
                             1, referenceLayouts, <<>>, <<>>, kind, unit))

ApplyTernaryLayoutWithoutRule(s, placement, kind, unit, reference) ==
  IF reference = Null \/ reference.v = <<>> THEN Unchanged(s)
  ELSE applyReferenceTernaryLayouts(s, IF placement = Null THEN Str("leading")
                                       ELSE placement,
                                    kind, unit,
                                    collectReferenceTernaryLayouts(reference.v))

\* reference: Null when none is given, Str(text) otherwise
applyTernaryLayout(s, placement, kind, unit, reference) ==
  IF placement = Null THEN Unchanged(s)
  ELSE IF reference = Null \/ reference.v = <<>> THEN Unchanged(s)
  ELSE applyReferenceTernaryLayouts(s, placement, kind, unit,
                                    collectReferenceTernaryLayouts(reference.v))

-----------------------------------------------------------------------------
\* Member chains

RECURSIVE collectCalleeMembers(_)
collectCalleeMembers(node) ==
  CASE TypeOf(node) = "CallExpression" -> collectCalleeMembers(Get(node, "callee"))
    [] TypeOf(node) = "MemberExpression" ->
         Append(collectCalleeMembers(Get(node, "object")), node)
    [] OTHER -> <<>>

memberSeparator(s, member) ==
  LET start == EndOf(Get(member, "object"))
      end == StartOf(Get(member, "property"))
      between == Slice(s, start, end)
  IN IF ~Includes(between, ".") THEN Null
     ELSE [start |-> start, end |-> end, between |-> between,
           delimiter |-> <<".">>, hasNewline |-> Includes(between, "\n")]

\* the CallExpression visitor of the replay: every call that is not the
\* object of a member expression, in traversal order
RECURSIVE CallsNotObject(_, _)
RECURSIVE CallsNotObjectIn(_)
CallsNotObjectIn(nodes) ==
  IF nodes = <<>> THEN <<>>
  ELSE CallsNotObject(Head(nodes), FALSE) \o CallsNotObjectIn(Tail(nodes))

CallsNotObject(node, isObject) ==
  CASE TypeOf(node) = "CallExpression" ->
         (IF isObject THEN <<>> ELSE <<node>>)
           \o CallsNotObject(Get(node, "callee"), FALSE)
    [] TypeOf(node) = "MemberExpression" -> CallsNotObject(Get(node, "object"), TRUE)
    [] TypeOf(node) = "ConditionalExpression" ->
         CallsNotObjectIn(<<Get(node, "test"), Get(node, "consequent"),
                            Get(node, "alternate")>>)
    [] OTHER -> <<>>

RECURSIVE ReferenceSegments(_, _)
ReferenceSegments(s, members) ==
  IF members = <<>> THEN <<>>
  ELSE LET separator == memberSeparator(s, Head(members))
           propertyColumn == StartColumn(Get(Head(members), "property"))
           rest == ReferenceSegments(s, Tail(members))
       IN IF separator = Null THEN rest
          ELSE <<[broken |-> separator.hasNewline,
                  column |-> IF separator.hasNewline
                             THEN Num(Max(0, propertyColumn - Len(separator.delimiter)))
                             ELSE Null]>> \o rest

\* collectNode: the layout recorded for one call, Null when it records none
MemberChainLayout(s, node) ==
  With(collectCalleeMembers(Get(node, "callee")), LAMBDA members :
    With(ReferenceSegments(s, members), LAMBDA segments :
      IF Len(members) < 2 THEN Null
      ELSE IF \A i \in 1 .. Len(segments) : ~segments[i].broken THEN Null
      ELSE [segments |-> segments]))

RECURSIVE CollectMemberChainLayouts(_, _, _, _)
CollectMemberChainLayouts(s, nodes, index, layouts) ==
  IF index > Len(nodes) THEN layouts
  ELSE CollectMemberChainLayouts(s, nodes, index + 1,
         With(MemberChainLayout(s, nodes[index]), LAMBDA layout :
           IF layout = Null THEN layouts
           ELSE Enqueue(layouts, nodeSignature(nodes[index]),
                        [layout |-> layout, origin |-> index])))

collectReferenceMemberChainLayouts(referenceText) ==
  With(parseAst(referenceText), LAMBDA ast :
    IF ast = Null THEN EmptyMap
    ELSE CollectMemberChainLayouts(referenceText, CallsNotObjectIn(ast.body),
                                   1, EmptyMap))

RECURSIVE CurrentSegments(_, _)
CurrentSegments(s, members) ==
  IF members = <<>> THEN <<>>
  ELSE LET separator == memberSeparator(s, Head(members))
       IN (IF separator = Null THEN <<>> ELSE <<separator>>)
            \o CurrentSegments(s, Tail(members))

\* the loop of alignNode over the paired segments
RECURSIVE AlignSegments(_, _, _, _, _, _)
AlignSegments(targets, currents, index, fallbackColumn, kind, unit) ==
  IF index > Min(Len(targets), Len(currents)) THEN <<>>
  ELSE LET target == targets[index]
           current == currents[index]
           rest == AlignSegments(targets, currents, index + 1, fallbackColumn,
                                 kind, unit)
       IN IF HasComment(current.between) THEN rest
          ELSE IF target.broken /\ ~current.hasNewline
          THEN <<[start |-> current.start, end |-> current.end,
                  text |-> <<"\n">>
                             \o indentForColumn(IF target.column # Null
                                                THEN target.column.v
                                                ELSE fallbackColumn, kind, unit)
                             \o current.delimiter]>> \o rest
          ELSE IF ~target.broken /\ current.hasNewline
          THEN <<[start |-> current.start, end |-> current.end,
                  text |-> current.delimiter]>> \o rest
          ELSE rest

\* alignNode after queue.shift(): the replacements pushed for one call
alignNode(s, node, layout, style, kind, unit) ==
  AlignSegments(layout.segments,
                CurrentSegments(s, collectCalleeMembers(Get(node, "callee"))),
                1,
                IF style = Str("aligned") THEN StartColumn(node)
                ELSE StartColumn(node) + IndentStep(unit),
                kind, unit)

RECURSIVE VisitMemberChains(_, _, _, _, _, _, _, _, _)
VisitMemberChains(s, nodes, index, layouts, array, dequeued, style, kind, unit) ==
  IF index > Len(nodes) THEN Applied(s, array, dequeued)
  ELSE With(nodeSignature(nodes[index]), LAMBDA key :
         With(MapGet(layouts, key), LAMBDA queue :
           IF queue = <<>>
           THEN VisitMemberChains(s, nodes, index + 1, layouts, array, dequeued,
                                  style, kind, unit)
           ELSE With(alignNode(s, nodes[index], Head(queue).layout, style, kind, unit),
                     LAMBDA pushed :
                  VisitMemberChains(s, nodes, index + 1,
                    MapSet(layouts, key, Shift(queue)),
                    array \o pushed,
                    Append(dequeued, Dequeued(key, index, Head(queue), pushed # <<>>)),
                    style, kind, unit))))

applyReferenceMemberChainBreaks(s, style, kind, unit, referenceLayouts) ==
  IF DOMAIN referenceLayouts = {} THEN Unchanged(s)
  ELSE With(parseAst(s), LAMBDA ast :
         IF ast = Null THEN Unchanged(s)
         ELSE VisitMemberChains(s, CallsNotObjectIn(ast.body), 1, referenceLayouts,
                                <<>>, <<>>, style, kind, unit))

\* continuation.match(/^\s*/)[0].length
RECURSIVE LeadingWhitespace(_)
LeadingWhitespace(line) ==
  IF line # <<>> /\ IsWhitespace(Head(line)) THEN 1 + LeadingWhitespace(Tail(line))
  ELSE 0

\* one visit of the MemberExpression visitor: the replacement it pushes, if any
MemberIndentReplacement(s, objectStartLine, desiredColumn, memberLine, kind, unit) ==
  With(SplitLines(s, <<>>)[memberLine], LAMBDA continuation :
    With(LeadingWhitespace(continuation), LAMBDA continuationColumn :
      IF \/ memberLine <= objectStartLine
         \/ continuation = <<>>
         \/ CharAt(continuation, continuationColumn) # "."
         \/ continuationColumn = desiredColumn
      THEN <<>>
      ELSE <<[start |-> lineOffsets(s)[memberLine],
              end |-> lineOffsets(s)[memberLine] + continuationColumn,
              text |-> indentForColumn(desiredColumn, kind, unit)]>>))

\* the MemberExpression visitor of applyMemberChainIndentation
RECURSIVE IndentReplacements(_, _, _, _, _)
IndentReplacements(s, members, style, kind, unit) ==
  IF members = <<>> THEN <<>>
  ELSE MemberIndentReplacement(
         s, StartLine(Get(Head(members), "object")),
         IF style = Str("aligned") THEN StartColumn(Get(Head(members), "object"))
         ELSE StartColumn(Get(Head(members), "object")) + IndentStep(unit),
         StartLine(Get(Head(members), "property")), kind, unit)
       \o IndentReplacements(s, Tail(members), style, kind, unit)

applyMemberChainIndentation(s, style, kind, unit) ==
  With(parseAst(s), LAMBDA ast :
    IF ast = Null THEN Unchanged(s)
    ELSE Applied(s, IndentReplacements(s, NodesOfTypeIn(ast.body, "MemberExpression"),
                                       style, kind, unit),
                 <<>>))

applyMemberExpressionIndentation(s, style, kind, unit, reference) ==
  IF style = Null THEN Unchanged(s)
  ELSE With(IF reference = Null \/ reference.v = <<>> THEN Unchanged(s)
            ELSE applyReferenceMemberChainBreaks(
                   s, style, kind, unit,
                   collectReferenceMemberChainLayouts(reference.v)),
            LAMBDA replay :
         With(applyMemberChainIndentation(replay.output, style, kind, unit),
              LAMBDA indentation :
           Outcome(indentation.output,
                   replay.replacements \o indentation.replacements,
                   replay.consumed)))

-----------------------------------------------------------------------------
\* The parser over statements, for the single-line conditional normalizer.
\* "i" is the keyword if and "E" the keyword else; "(a)" is a condition; an
\* identifier followed by ";" is an expression statement and "r" followed by
\* ";" a return statement; "{" and "}" wrap a
\* block; "#" is a line comment, always the last token of its line.

IfNode(s, at, test, consequent, alternate) ==
  NodeAt("IfStatement", s, at,
         IF alternate = Null THEN EndOf(consequent) ELSE EndOf(alternate),
         <<Entry("test", test), Entry("consequent", consequent),
           Entry("alternate", alternate)>>)

BlockNode(s, at, end, body) ==
  NodeAt("BlockStatement", s, at, end, <<Entry("body", JArr(body))>>)

ExpressionStatementNode(s, at, end) ==
  NodeAt("ExpressionStatement", s, at, end,
         <<Entry("expression", IdentifierNode(s, at))>>)

\* "r" is the keyword return, here always without an argument
ReturnStatementNode(s, at, end) ==
  NodeAt("ReturnStatement", s, at, end, <<Entry("argument", Null)>>)

\* "(" identifier ")" after the keyword: the test and the index after ")"
ParseTest(s, from) ==
  With(SkipTrivia(s, from), LAMBDA open :
    IF ~TokenIs(s, open, {"("}) THEN Null
    ELSE With(SkipTrivia(s, open + 1), LAMBDA at :
      IF ~TokenIs(s, at, Atoms) THEN Null
      ELSE With(SkipTrivia(s, at + 1), LAMBDA close :
        IF ~TokenIs(s, close, {")"}) THEN Null
        ELSE Parsed(IdentifierNode(s, at), close + 1))))

RECURSIVE ParseStatement(_, _)
RECURSIVE ParseBlockBody(_, _, _, _)
RECURSIVE ParseElse(_, _, _, _)

\* an else binds to the nearest if
ParseElse(s, at, test, consequent) ==
  With(SkipTrivia(s, consequent.next), LAMBDA else :
    IF ~TokenIs(s, else, {"E"})
    THEN Parsed(IfNode(s, at, test.node, consequent.node, Null), consequent.next)
    ELSE With(ParseStatement(s, else + 1), LAMBDA alternate :
      IF alternate = Null THEN Null
      ELSE Parsed(IfNode(s, at, test.node, consequent.node, alternate.node),
                  alternate.next)))

ParseBlockBody(s, open, from, body) ==
  With(SkipTrivia(s, from), LAMBDA at :
    IF TokenIs(s, at, {"}"}) THEN Parsed(BlockNode(s, open, at + 1, body), at + 1)
    ELSE With(ParseStatement(s, at), LAMBDA statement :
      IF statement = Null THEN Null
      ELSE ParseBlockBody(s, open, statement.next, Append(body, statement.node))))

ParseStatement(s, from) ==
  With(SkipTrivia(s, from), LAMBDA at :
    IF TokenIs(s, at, {"i"})
    THEN With(ParseTest(s, at + 1), LAMBDA test :
           IF test = Null THEN Null
           ELSE With(ParseStatement(s, test.next), LAMBDA consequent :
             IF consequent = Null THEN Null
             ELSE ParseElse(s, at, test, consequent)))
    ELSE IF TokenIs(s, at, {"{"}) THEN ParseBlockBody(s, at, at + 1, <<>>)
    ELSE IF TokenIs(s, at, {"r"})
    THEN With(SkipTrivia(s, at + 1), LAMBDA semicolon :
           IF ~TokenIs(s, semicolon, {";"}) THEN Null
           ELSE Parsed(ReturnStatementNode(s, at, semicolon + 1), semicolon + 1))
    ELSE IF TokenIs(s, at, Atoms)
    THEN With(SkipTrivia(s, at + 1), LAMBDA semicolon :
           IF ~TokenIs(s, semicolon, {";"}) THEN Null
           ELSE Parsed(ExpressionStatementNode(s, at, semicolon + 1), semicolon + 1))
    ELSE Null)

RECURSIVE ParseProgram(_, _, _)
ParseProgram(s, from, body) ==
  With(SkipTrivia(s, from), LAMBDA at :
    IF at >= Len(s) THEN Ast(body)
    ELSE With(ParseStatement(s, at), LAMBDA statement :
      IF statement = Null THEN Null
      ELSE ParseProgram(s, statement.next, Append(body, statement.node))))

\* parseAst over statements: Ast(the statements in order), or Null
parseProgram(s) == ParseProgram(s, 0, <<>>)

\* traverse with an IfStatement visitor: parents before children
RECURSIVE IfStatements(_)
RECURSIVE IfStatementsIn(_)
IfStatementsIn(nodes) ==
  IF nodes = <<>> THEN <<>>
  ELSE IfStatements(Head(nodes)) \o IfStatementsIn(Tail(nodes))

IfStatements(node) ==
  CASE TypeOf(node) = "IfStatement" ->
         <<node>> \o IfStatements(Get(node, "consequent"))
           \o (IF Get(node, "alternate") = Null THEN <<>>
               ELSE IfStatements(Get(node, "alternate")))
    [] TypeOf(node) = "BlockStatement" -> IfStatementsIn(Get(node, "body").items)
    [] OTHER -> <<>>

\* Checks that let a conditional with an alternate through.
SingleLineIfEligibleWithAlternate(s, node, test, consequent) ==
  /\ TypeOf(consequent) # "BlockStatement"
  /\ StartLine(test) = StartLine(node)
  /\ EndLine(test) = StartLine(node)
  /\ StartLine(consequent) = EndLine(consequent)
  /\ StartLine(consequent) = StartLine(node) + 1
  /\ ~HasComment(SplitLines(s, <<>>)[StartLine(consequent)])
  /\ Includes(Slice(s, EndOf(test), StartOf(consequent)), "\n")
  /\ ~HasComment(Slice(s, EndOf(test), StartOf(consequent)))

\* the visitor's checks before it pushes a replacement
SingleLineIfEligible(s, node, test, consequent) ==
  /\ Get(node, "alternate") = Null
  /\ TypeOf(consequent) # "BlockStatement"
  /\ StartLine(test) = StartLine(node)
  /\ EndLine(test) = StartLine(node)
  /\ StartLine(consequent) = EndLine(consequent)
  /\ StartLine(consequent) = StartLine(node) + 1
  /\ ~HasComment(SplitLines(s, <<>>)[StartLine(consequent)])
  /\ Includes(Slice(s, EndOf(test), StartOf(consequent)), "\n")
  /\ ~HasComment(Slice(s, EndOf(test), StartOf(consequent)))
  /\ ~Includes(Slice(s, StartOf(test), EndOf(test)), "\n")
  /\ ~Includes(Slice(s, StartOf(consequent), EndOf(consequent)), "\n")

\* `if (${condition}) ${statement}`
SingleLineIfText(s, test, consequent) ==
  <<"i", " ", "(">> \o Slice(s, StartOf(test), EndOf(test)) \o <<")", " ">>
    \o Slice(s, StartOf(consequent), EndOf(consequent))

SingleLineIfReplacement(s, node) ==
  IF SingleLineIfEligible(s, node, Get(node, "test"), Get(node, "consequent"))
  THEN <<[start |-> StartOf(node), end |-> EndOf(Get(node, "consequent")),
          text |-> SingleLineIfText(s, Get(node, "test"), Get(node, "consequent"))]>>
  ELSE <<>>

RECURSIVE SingleLineIfReplacements(_, _)
SingleLineIfReplacements(s, nodes) ==
  IF nodes = <<>> THEN <<>>
  ELSE SingleLineIfReplacement(s, Head(nodes))
         \o SingleLineIfReplacements(s, Tail(nodes))

applySingleLineIfStyle(s, style) ==
  IF style # Str("omit") THEN Unchanged(s)
  ELSE With(parseProgram(s), LAMBDA ast :
    IF ast = Null THEN Unchanged(s)
    ELSE Applied(s, SingleLineIfReplacements(s, IfStatementsIn(ast.body)), <<>>))

-----------------------------------------------------------------------------
\* src/apply/apply.js: the profile applyStyle hands to applyBiome

\* internal/biome config writer: a rule the generated configuration acts on
enforced(r) == r # Null /\ r.status = "enforced" /\ r.value # Null

\* applyBiome: the style a normalizer is given for a rule
styleOf(r) == IF r.status = "enforced" THEN r.value ELSE Null

RuleKeys == {"autoFixSafe", "status", "value"}

RECURSIVE VisitKeepingValue(_)
VisitKeepingValue(node) ==
  IF RuleKeys \subseteq DOMAIN node
  THEN (IF node.autoFixSafe # TRUE
        THEN [node EXCEPT !.status = "undetermined"]
        ELSE node)
  ELSE [key \in DOMAIN node |-> VisitKeepingValue(node[key])]

RECURSIVE visit(_)
visit(node) ==
  IF RuleKeys \subseteq DOMAIN node
  THEN (IF node.autoFixSafe # TRUE
        THEN [node EXCEPT !.status = "undetermined", !.value = Null]
        ELSE node)
  ELSE [key \in DOMAIN node |-> visit(node[key])]

\* copy = structuredClone(profile); visit(copy.rules); return copy
safeOnlyProfile(p) == [p EXCEPT !.rules = visit(p.rules)]

\* The rules applyBiome reads, and one the configuration writer reads.
ApplyPaths ==
  {"comments.trailingInlineCommentAlignment", "controlFlow.singleLineIfBraces",
   "syntax.multilineTernaryOperatorPlacement",
   "syntax.variableDeclarationCommaPlacement", "syntax.quotes",
   "whitespace.indentationKind", "whitespace.indentationSize",
   "whitespace.switchCaseBreakIndentation",
   "whitespace.multilineCallArgumentLayout",
   "whitespace.memberExpressionIndentation"}

\* profile.rules as the nested object it is: section, then rule name
RulesObject(flat) ==
  [comments |->
     [trailingInlineCommentAlignment |-> flat["comments.trailingInlineCommentAlignment"]],
   controlFlow |->
     [singleLineIfBraces |-> flat["controlFlow.singleLineIfBraces"]],
   syntax |->
     [multilineTernaryOperatorPlacement |-> flat["syntax.multilineTernaryOperatorPlacement"],
      variableDeclarationCommaPlacement |-> flat["syntax.variableDeclarationCommaPlacement"],
      quotes |-> flat["syntax.quotes"]],
   whitespace |->
     [indentationKind |-> flat["whitespace.indentationKind"],
      indentationSize |-> flat["whitespace.indentationSize"],
      switchCaseBreakIndentation |-> flat["whitespace.switchCaseBreakIndentation"],
      multilineCallArgumentLayout |-> flat["whitespace.multilineCallArgumentLayout"],
      memberExpressionIndentation |-> flat["whitespace.memberExpressionIndentation"]]]

PathParts ==
  ("comments.trailingInlineCommentAlignment" :> <<"comments", "trailingInlineCommentAlignment">>) @@
  ("controlFlow.singleLineIfBraces" :> <<"controlFlow", "singleLineIfBraces">>) @@
  ("syntax.multilineTernaryOperatorPlacement" :> <<"syntax", "multilineTernaryOperatorPlacement">>) @@
  ("syntax.variableDeclarationCommaPlacement" :> <<"syntax", "variableDeclarationCommaPlacement">>) @@
  ("syntax.quotes" :> <<"syntax", "quotes">>) @@
  ("whitespace.indentationKind" :> <<"whitespace", "indentationKind">>) @@
  ("whitespace.indentationSize" :> <<"whitespace", "indentationSize">>) @@
  ("whitespace.switchCaseBreakIndentation" :> <<"whitespace", "switchCaseBreakIndentation">>) @@
  ("whitespace.multilineCallArgumentLayout" :> <<"whitespace", "multilineCallArgumentLayout">>) @@
  ("whitespace.memberExpressionIndentation" :> <<"whitespace", "memberExpressionIndentation">>)

\* profile.rules.<section>.<name>
RuleOf(p, path) == p.rules[PathParts[path][1]][PathParts[path][2]]

\* applyBiome: indentKind and indentSize, with their defaults
DefaultIndentSize == 2

indentKindOf(p) ==
  IF RuleOf(p, "whitespace.indentationKind").status = "enforced"
       /\ RuleOf(p, "whitespace.indentationKind").value # Null
  THEN RuleOf(p, "whitespace.indentationKind").value.v
  ELSE "space"

indentSizeOf(p) ==
  IF RuleOf(p, "whitespace.indentationSize").status = "enforced"
       /\ RuleOf(p, "whitespace.indentationSize").value.t = "num"
  THEN RuleOf(p, "whitespace.indentationSize").value.v
  ELSE DefaultIndentSize

\* The normalizers applyBiome runs on one file after the formatter.  Every
\* normalizer but the one for switch cases returns its source when its rule
\* gives it no style, which is the case for the profiles of SpecApply.
normalize(next, p, before) ==
  applySwitchCaseBreakIndentation(
    next, styleOf(RuleOf(p, "whitespace.switchCaseBreakIndentation")),
    indentKindOf(p), indentSizeOf(p))

\* A directory and the files in it (path -> content).
Dir(files) == [t |-> "dir", files |-> files]

ChangedNever(before, after) == FALSE

\* const changed = before !== after
changed(before, after) == before # after

\* buildReport: the flag, the files scanned and, per file, whether it changed
buildReport(write, before, after) ==
  [write |-> write,
   filesScanned |-> Cardinality(DOMAIN before),
   filesChanged |-> Cardinality({file \in DOMAIN before : changed(before[file], after[file])}),
   files |-> [file \in DOMAIN before |-> [changed |-> changed(before[file], after[file])]]]

-----------------------------------------------------------------------------
\* Trailing inline comments.  "x" is an identifier character, "=" and ","
\* are themselves, "R" stands for the keyword return, "c" is a character of
\* comment text, and "/" "/" opens a comment.

\* value.replace(/\s+$/, '')
RECURSIVE TrimEnd(_)
TrimEnd(s) ==
  IF s # <<>> /\ IsWhitespace(s[Len(s)]) THEN TrimEnd(SubSeq(s, 1, Len(s) - 1)) ELSE s

\* lines.join('\n')
RECURSIVE JoinLines(_)
JoinLines(lines) ==
  IF Len(lines) = 0 THEN <<>>
  ELSE IF Len(lines) = 1 THEN lines[1]
  ELSE lines[1] \o <<"\n">> \o JoinLines(Tail(lines))

AssignmentPrefixes == {"+", "-", "*", "/", "%", "&", "|", "^"}
ComparisonCharacters == {"=", "!", "<", ">"}

\* /(?:^|[^=!<>])(?:[+\-*/%&|^]?=)(?!=)/.test(trimmed)
HasAssignment(trimmed) ==
  \E k \in 1 .. Len(trimmed) :
    /\ trimmed[k] = "="
    /\ k = Len(trimmed) \/ trimmed[k + 1] # "="
    /\ \/ k = 1
       \/ trimmed[k - 1] \notin ComparisonCharacters
       \/ /\ trimmed[k - 1] \in AssignmentPrefixes
          /\ k = 2 \/ trimmed[k - 2] \notin ComparisonCharacters

\* The tests for characters the lines of the model do not hold (a control
\* keyword before a parenthesis, case, a bracket, a brace, a colon) are left
\* out.
isLikelyAlignmentTarget(prefix) ==
  With(Trim(prefix), LAMBDA trimmed :
    IF trimmed = <<>> THEN FALSE
    ELSE IF trimmed[1] = "R" THEN FALSE
    ELSE IF trimmed[Len(trimmed)] = "," THEN TRUE
    ELSE HasAssignment(trimmed))

\* value.trim().replace(/\s+/g, ' ')
RECURSIVE CollapseWhitespace(_)
CollapseWhitespace(s) ==
  IF s = <<>> THEN <<>>
  ELSE IF IsWhitespace(Head(s))
  THEN <<" ">> \o CollapseWhitespace(SliceFrom(s, LeadingWhitespace(s)))
  ELSE <<Head(s)>> \o CollapseWhitespace(Tail(s))

normalizeLeftForMatch(value) == CollapseWhitespace(Trim(value))

IsCommentAt(line, index) == CharAt(line, index) = "/" /\ CharAt(line, index + 1) = "/"

\* line.match(/^(\s*)(.+?)(\s+)\/\/(.*)$/): the offset of the slashes the
\* match ends its third group at, or -1.  With the first group the whole
\* leading whitespace these are the first slashes that follow whitespace
\* after at least one other character; a match with a shorter first group
\* has nothing but whitespace before the slashes.
CommentStart(line) ==
  With({p \in LeadingWhitespace(line) + 2 .. Len(line) :
          IsCommentAt(line, p) /\ IsWhitespace(CharAt(line, p - 1))},
       LAMBDA starts : IF starts = {} THEN -1 ELSE SetMin(starts))

\* line.match(/^\s*\/\/(.*)$/): the comment text of a line that holds only
\* a comment, wrapped, or Null
DetachedComment(line) ==
  IF IsCommentAt(line, LeadingWhitespace(line))
  THEN Str(SliceFrom(line, LeadingWhitespace(line) + 2))
  ELSE Null

\* line.includes('//')
IncludesComment(line) == \E p \in 0 .. Len(line) - 2 : IsCommentAt(line, p)

parseCandidate(line, lineNumber) ==
  With(CommentStart(line), LAMBDA start :
    IF start < 0 THEN Null
    ELSE IF ~isLikelyAlignmentTarget(TrimEnd(Slice(line, 0, start))) THEN Null
    ELSE [lineNumber |-> lineNumber, line |-> line,
          left |-> TrimEnd(Slice(line, 0, start)),
          indent |-> LeadingWhitespace(line),
          comment |-> SliceFrom(line, start + 2)])

\* referenceInlineCommentLookup: the pairs <<key, comment text>> recorded
referenceInlineCommentLookup(referenceText) ==
  With(SplitLines(referenceText, <<>>), LAMBDA lines :
    {<<normalizeLeftForMatch(TrimEnd(Slice(lines[i], 0, CommentStart(lines[i])))),
       Trim(SliceFrom(lines[i], CommentStart(lines[i]) + 2))>> :
       i \in {j \in 1 .. Len(lines) :
                /\ CommentStart(lines[j]) >= 0
                /\ isLikelyAlignmentTarget(
                     TrimEnd(Slice(lines[j], 0, CommentStart(lines[j]))))}})

\* lines.splice(index + 1, 1), index 0-based
RemoveLine(lines, index) ==
  SubSeq(lines, 1, index + 1) \o SubSeq(lines, index + 3, Len(lines))

\* one round of the loop of restoreDetachedInlineComments decides whether
\* the line at index takes the comment below it
Reattaches(lines, index, lookup) ==
  /\ ~IncludesComment(lines[index + 1])
  /\ DetachedComment(lines[index + 2]) # Null
  /\ isLikelyAlignmentTarget(TrimEnd(lines[index + 1]))
  /\ <<normalizeLeftForMatch(TrimEnd(lines[index + 1])),
       Trim(DetachedComment(lines[index + 2]).v)>> \in lookup

RECURSIVE RestoreFrom(_, _, _)
RestoreFrom(lines, index, lookup) ==
  IF index >= Len(lines) - 1 THEN lines
  ELSE IF Reattaches(lines, index, lookup)
  THEN RestoreFrom(
         RemoveLine([lines EXCEPT ![index + 1] =
                       TrimEnd(lines[index + 1]) \o <<" ", "/", "/", " ">>
                         \o Trim(DetachedComment(lines[index + 2]).v)],
                    index),
         index + 1, lookup)
  ELSE RestoreFrom(lines, index + 1, lookup)

restoreDetachedInlineComments(lines, referenceText) ==
  With(referenceInlineCommentLookup(referenceText), LAMBDA lookup :
    IF lookup = {} THEN lines ELSE RestoreFrom(lines, 0, lookup))

\* the candidates of the lines from index on, in order
RECURSIVE CandidatesFrom(_, _)
CandidatesFrom(lines, index) ==
  IF index >= Len(lines) THEN <<>>
  ELSE (IF parseCandidate(lines[index + 1], index) = Null THEN <<>>
        ELSE <<parseCandidate(lines[index + 1], index)>>)
       \o CandidatesFrom(lines, index + 1)

IsBlank(line) == Trim(line) = <<>>

\* the test that closes the group before candidates[index]
SplitsGroup(candidates, index, group, lines) ==
  \/ candidates[index].indent # group[1].indent
  \/ candidates[index].lineNumber - candidates[index - 1].lineNumber - 1 > 3
  \/ \E n \in candidates[index - 1].lineNumber + 1 .. candidates[index].lineNumber - 1 :
       IsBlank(lines[n + 1])

RECURSIVE SplitGroupsFrom(_, _, _, _)
SplitGroupsFrom(candidates, index, group, lines) ==
  IF index > Len(candidates) THEN <<group>>
  ELSE IF SplitsGroup(candidates, index, group, lines)
  THEN <<group>> \o SplitGroupsFrom(candidates, index + 1, <<candidates[index]>>, lines)
  ELSE SplitGroupsFrom(candidates, index + 1, Append(group, candidates[index]), lines)

splitGroups(candidates, lines) ==
  IF candidates = <<>> THEN <<>>
  ELSE SplitGroupsFrom(candidates, 2, <<candidates[1]>>, lines)

RECURSIVE MaxLeft(_)
MaxLeft(group) ==
  IF group = <<>> THEN 0 ELSE Max(Len(Head(group).left), MaxLeft(Tail(group)))

\* A pad that is one column short in the aligned style.
CommentPadNarrow(style, width, entry) ==
  IF style = Str("single-space") THEN 1
  ELSE Max(1, width - Len(entry.left) + 1)

\* the spaces rewriteGroup puts between the code and the slashes
CommentPad(style, width, entry) ==
  IF style = Str("single-space") THEN 1
  ELSE Max(2, width - Len(entry.left) + 2)

RECURSIVE RewriteEntries(_, _, _, _)
RewriteEntries(entries, style, width, out) ==
  IF entries = <<>> THEN out
  ELSE RewriteEntries(
         Tail(entries), style, width,
         [out EXCEPT ![Head(entries).lineNumber + 1] =
            Head(entries).left \o Repeat(" ", CommentPad(style, width, Head(entries)))
              \o <<"/", "/">> \o Head(entries).comment])

rewriteGroup(group, style, out) ==
  IF group = <<>> THEN out
  ELSE IF style = Str("single-space") THEN RewriteEntries(group, style, 0, out)
  ELSE IF Len(group) < 2 THEN out
  ELSE RewriteEntries(group, style, MaxLeft(group), out)

RECURSIVE RewriteGroups(_, _, _)
RewriteGroups(groups, style, out) ==
  IF groups = <<>> THEN out
  ELSE RewriteGroups(Tail(groups), style, rewriteGroup(Head(groups), style, out))

\* the lines after the optional pass that reattaches comments
InlineCommentLines(s, style, reference) ==
  IF style = Str("aligned") /\ reference # Null /\ reference.v # <<>>
  THEN restoreDetachedInlineComments(SplitLines(s, <<>>), reference.v)
  ELSE SplitLines(s, <<>>)

InlineCommentGroups(out) == splitGroups(CandidatesFrom(out, 0), out)

applyInlineCommentStyle(s, style, reference) ==
  IF style = Null THEN s
  ELSE With(InlineCommentLines(s, style, reference), LAMBDA out :
         JoinLines(RewriteGroups(InlineCommentGroups(out), style, out)))

-----------------------------------------------------------------------------
\* Variable declarations.  "v" stands for the keyword var; a declarator is
\* one identifier; "," separates declarators and ";" ends the declaration.

Declarator(s, at) == [start |-> at, end |-> at + 1, line |-> LineAt(s, at)]

\* the declarators of one declaration from index on, with the offset after
\* the semicolon
RECURSIVE ParseDeclarators(_, _, _)
ParseDeclarators(s, index, declarations) ==
  With(SkipTrivia(s, index), LAMBDA at :
    IF ~TokenIs(s, at, Atoms) THEN Null
    ELSE With(SkipTrivia(s, at + 1), LAMBDA after :
           IF TokenIs(s, after, {","})
           THEN ParseDeclarators(s, after + 1, Append(declarations, Declarator(s, at)))
           ELSE IF TokenIs(s, after, {";"})
           THEN Parsed(Append(declarations, Declarator(s, at)), after + 1)
           ELSE Null))

\* the VariableDeclaration nodes of the program, each the list of its
\* declarators
RECURSIVE ParseDeclarations(_, _, _)
ParseDeclarations(s, index, nodes) ==
  With(SkipTrivia(s, index), LAMBDA at :
    IF at >= Len(s) THEN Ast(nodes)
    ELSE IF ~TokenIs(s, at, {"v"}) THEN Null
    ELSE With(ParseDeclarators(s, at + 1, <<>>), LAMBDA parsed :
           IF parsed = Null THEN Null
           ELSE ParseDeclarations(s, parsed.next, Append(nodes, parsed.node))))

parseDeclarations(s) == ParseDeclarations(s, 0, <<>>)

\* text.lastIndexOf(ch)
LastIndexOf(s, ch) ==
  IF Includes(s, ch) THEN (CHOOSE i \in 1 .. Len(s) :
                             s[i] = ch /\ \A j \in i + 1 .. Len(s) : s[j] # ch) - 1
  ELSE -1

\* the text from the last line break of beforeComma on
BeforeCommaLine(beforeComma) == SliceFrom(beforeComma, LastIndexOf(beforeComma, "\n") + 1)

IsLeadingComma(between) ==
  /\ Includes(Slice(between, 0, IndexOf(between, ",")), "\n")
  /\ Trim(BeforeCommaLine(Slice(between, 0, IndexOf(between, ",")))) = <<>>

IsTrailingComma(between) ==
  /\ ~Includes(Slice(between, 0, IndexOf(between, ",")), "\n")
  /\ Includes(SliceFrom(between, IndexOf(between, ",") + 1), "\n")

\* source.slice(lineStart, current.start)
CurrentIndent(s, current) == Slice(s, lineOffsets(s)[current.line], current.start)

\* the text pushed for a pair that is converted
CommaText(s, current, placement) ==
  IF placement = Str("leading")
  THEN <<"\n">> \o CurrentIndent(s, current) \o <<",", " ">>
  ELSE <<",", "\n">> \o CurrentIndent(s, current)

\* one round of the loop over the declarators of a declaration
CommaReplacement(s, previous, current, placement) ==
  With(Slice(s, previous.end, current.start), LAMBDA between :
    IF \/ ~Includes(between, "\n")
       \/ HasComment(between)
       \/ IndexOf(between, ",") = -1
       \/ ~IsLeadingComma(between) /\ ~IsTrailingComma(between)
       \/ ~(\/ placement = Str("leading") /\ IsTrailingComma(between)
            \/ placement = Str("trailing") /\ IsLeadingComma(between))
    THEN <<>>
    ELSE <<[start |-> previous.end, end |-> current.start,
            text |-> CommaText(s, current, placement)]>>)

RECURSIVE DeclaratorReplacements(_, _, _, _)
DeclaratorReplacements(s, declarations, index, placement) ==
  IF index > Len(declarations) THEN <<>>
  ELSE CommaReplacement(s, declarations[index - 1], declarations[index], placement)
       \o DeclaratorReplacements(s, declarations, index + 1, placement)

\* the VariableDeclaration visitor over the nodes in order
RECURSIVE DeclarationReplacements(_, _, _)
DeclarationReplacements(s, nodes, placement) ==
  IF nodes = <<>> THEN <<>>
  ELSE DeclaratorReplacements(s, Head(nodes), 2, placement)
       \o DeclarationReplacements(s, Tail(nodes), placement)

applyVariableDeclarationCommaPlacement(s, placement) ==
  IF placement = Null THEN Unchanged(s)
  ELSE With(parseDeclarations(s), LAMBDA ast :
         IF ast = Null THEN Unchanged(s)
         ELSE Applied(s, DeclarationReplacements(s, ast.body, placement), <<>>))

-----------------------------------------------------------------------------
\* Idle values of the groups a specification does not use.

NoCall == [called |-> FALSE]

RuleIdle == options = NoCall /\ rule = NoCall

LearnIdle ==
  /\ pc = "idle"
  /\ aggregate = NoCall
  /\ minEvidence = 0
  /\ minConfidence = Zero
  /\ sampledFiles = 0
  /\ profile = NoCall
  /\ processed = {}
  /\ applied = 0
  /\ llmRuleSuggestionsApplied = Null
  /\ confidenceSummary = Null
  /\ lastSuggestion = Null

ApplyIdle ==
  /\ normalizer = "idle"
  /\ source = <<>>
  /\ referenceSource = Null
  /\ ruleValue = Null
  /\ indentKind = "space"
  /\ indentSize = 0
  /\ replacements = <<>>
  /\ consumed = <<>>
  /\ outputs = <<>>

RunIdle ==
  /\ step = "idle"
  /\ input = NoCall
  /\ effectiveProfile = Null
  /\ targetFiles = <<>>
  /\ scratchFiles = Null
  /\ beforeByFile = <<>>
  /\ afterByFile = <<>>
  /\ report = Null

AggregateIdle == fileSignals = <<>> /\ aggregated = Null

Idle(g) ==
  /\ IF g = "rule" THEN TRUE ELSE RuleIdle
  /\ IF g = "learn" THEN TRUE ELSE LearnIdle
  /\ IF g = "apply" THEN TRUE ELSE ApplyIdle
  /\ IF g = "run" THEN TRUE ELSE RunIdle
  /\ IF g = "aggregate" THEN TRUE ELSE AggregateIdle

Others(g) ==
  /\ IF g = "rule" THEN TRUE ELSE UNCHANGED ruleVars
  /\ IF g = "learn" THEN TRUE ELSE UNCHANGED learnVars
  /\ IF g = "apply" THEN TRUE ELSE UNCHANGED applyVars
  /\ IF g = "run" THEN TRUE ELSE UNCHANGED runVars
  /\ IF g = "aggregate" THEN TRUE ELSE UNCHANGED aggregateVars

-----------------------------------------------------------------------------
\* SpecBinaryRule: binaryRule applied to every input within the bounds.

BinaryRuleInit ==
  /\ options \in [yes : Counts, no : Counts,
                  yesValue : {Str("single")}, noValue : {Str("double")},
                  minEvidence : MinEvidences, minConfidence : MinConfidences,
                  autoFixSafe : BOOLEAN, provenance : {"deterministic"}]
  /\ rule = NoCall
  /\ Idle("rule")

CallBinaryRule ==
  /\ rule = NoCall
  /\ rule' = binaryRule(options)
  /\ UNCHANGED options
  /\ Others("rule")

BinaryRuleNext == CallBinaryRule

SpecBinaryRule == BinaryRuleInit /\ [][BinaryRuleNext]_vars

\* C1: for non-negative counts and any thresholds, zero observations give an
\* undetermined rule with null value and confidence 0; otherwise the winner
\* is the larger count (a tie goes to the yes value), confidence is
\* winner/(yes+no) and lies in [0,1], evidenceCount is the winner, and the
\* rule is enforced exactly when winner >= minEvidence and
\* confidence >= minConfidence, carrying the winning value only then.
C1_BinaryRuleContract ==
  rule # NoCall =>
    LET yes == options.yes
        no == options.no
        total == yes + no
        larger == IF yes < no THEN no ELSE yes
        passes == /\ larger >= options.minEvidence
                  /\ larger * options.minConfidence.den
                       >= options.minConfidence.num * total
    IN IF total = 0
       THEN /\ rule.status = "undetermined"
            /\ rule.value = Null
            /\ rule.confidence.num = 0
            /\ rule.evidenceCount = 0
       ELSE /\ rule.evidenceCount = larger
            /\ rule.confidence.num * total = larger * rule.confidence.den
            /\ rule.confidence.num >= 0
            /\ rule.confidence.num <= rule.confidence.den
            /\ (rule.status = "enforced") <=> passes
            /\ rule.status \in {"enforced", "undetermined"}
            /\ rule.status = "enforced" =>
                 /\ rule.value = (IF no > yes THEN options.noValue ELSE options.yesValue)
                 /\ rule.value # Null
                 /\ rule.evidenceCount >= options.minEvidence
                 /\ FracGeq(rule.confidence, options.minConfidence)
            /\ rule.status = "undetermined" => rule.value = Null

\* A tie between the counts that clears both thresholds: the yes value wins.
C1_Witness ==
  /\ rule # NoCall
  /\ options.yes = options.no
  /\ options.yes > 0
  /\ rule.status = "enforced"
  /\ rule.value = options.yesValue

-----------------------------------------------------------------------------
\* SpecLearn: learnStyle's inference, then the augmentation loop with one
\* step per entry of the augmenter's response.

MaxAggCount == 2
SampledFileCount == 1
MaxSuggestions == 2

AggCounts == 0 .. MaxAggCount
LearnMinEvidences == 1 .. 2
LearnMinConfidences == {Pct(50), Pct(75)}
LineLengths == {40, 85, 100, 200}
\* observed indent width -> number of lines
Histograms == {<<>>, (2 :> 1), (3 :> 2), (4 :> 1) @@ (6 :> 1)}

CounterNames ==
  {BinaryRules[p].yes : p \in DOMAIN BinaryRules} \cup
  {BinaryRules[p].no : p \in DOMAIN BinaryRules} \cup
  {"functionsWithJsdoc", "functionsTotal", "switchCaseBreakMatchCase",
   "switchCaseBreakIndented", "memberExprAlignedFiles", "memberExprIndentedFiles",
   "memberExprAligned", "memberExprIndented", "blankLines", "totalLines",
   "lineLengthMax"}

\* createSignals() with some counters set
Signals(over, sizes) ==
  [k \in CounterNames \cup {"indentSpaceSizes"} |->
     IF k = "indentSpaceSizes" THEN sizes
     ELSE IF k \in DOMAIN over THEN over[k] ELSE 0]

\* The aggregates the model draws: the counters one dimension reads take
\* every value within the bounds, the others stay 0.
AggregatesFor(p) ==
  CASE p \in DOMAIN BinaryRules /\ p # "whitespace.indentationKind" ->
         {Signals((BinaryRules[p].yes :> a) @@ (BinaryRules[p].no :> b), <<>>) :
            a \in AggCounts, b \in AggCounts}
    [] p = "whitespace.indentationKind" -> {}
    [] p = "whitespace.indentationSize" ->
         {Signals(("indentSpaceLines" :> x[1]) @@ ("indentTabLines" :> x[2]), x[3]) :
            x \in AggCounts \X AggCounts \X Histograms}
    [] p = "comments.preferJsdocForFunctions" ->
         {Signals(("functionsWithJsdoc" :> a) @@ ("functionsTotal" :> b), <<>>) :
            a \in AggCounts, b \in AggCounts}
    [] p = "whitespace.switchCaseBreakIndentation" ->
         {Signals(("switchCaseBreakMatchCase" :> a) @@ ("switchCaseBreakIndented" :> b), <<>>) :
            a \in AggCounts, b \in AggCounts}
    [] p = "whitespace.memberExpressionIndentation" ->
         {Signals(("memberExprAligned" :> x[1]) @@ ("memberExprIndented" :> x[2]) @@
                  ("memberExprAlignedFiles" :> x[3]) @@ ("memberExprIndentedFiles" :> x[4]),
                  <<>>) :
            x \in {y \in AggCounts \X AggCounts \X (0 .. 1) \X (0 .. 1) :
                     y[3] <= y[1] /\ y[4] <= y[2]}}
    [] p = "whitespace.blankLineDensity" ->
         {Signals(("blankLines" :> x[1]) @@ ("totalLines" :> x[2]), <<>>) :
            x \in {y \in AggCounts \X (0 .. 4 * MaxAggCount) : y[1] <= y[2]}}
    [] p = "syntax.lineWidth" ->
         {Signals(("blankLines" :> x[1]) @@ ("totalLines" :> x[2]) @@
                  ("lineLengthMax" :> x[3]), <<>>) :
            x \in {y \in AggCounts \X AggCounts \X LineLengths : y[1] < y[2]}}

LearnInit ==
  /\ pc = "start"
  /\ aggregate \in UNION {AggregatesFor(p) : p \in RulePaths}
  /\ minEvidence \in LearnMinEvidences
  /\ minConfidence \in LearnMinConfidences
  /\ sampledFiles = SampledFileCount
  /\ profile = NoCall
  /\ processed = {}
  /\ applied = 0
  /\ llmRuleSuggestionsApplied = Null
  /\ confidenceSummary = Null
  /\ lastSuggestion = Null
  /\ Idle("learn")

InferProfile ==
  /\ pc = "start"
  /\ profile' = inferProfile(aggregate, minEvidence, minConfidence)
  /\ confidenceSummary' =
       confidenceSummaryOf(inferProfile(aggregate, minEvidence, minConfidence))
  /\ pc' = "inferred"
  /\ UNCHANGED <<aggregate, minEvidence, minConfidence, sampledFiles, processed,
                 applied, llmRuleSuggestionsApplied, lastSuggestion>>
  /\ Others("learn")

\* inferenceMode is 'deterministic', or the augmenter answers nothing
ReturnProfile ==
  /\ pc = "inferred"
  /\ pc' = "done"
  /\ UNCHANGED <<aggregate, minEvidence, minConfidence, sampledFiles, profile,
                 processed, applied, llmRuleSuggestionsApplied, confidenceSummary,
                 lastSuggestion>>
  /\ Others("learn")

BeginAugment ==
  /\ pc = "inferred"
  /\ sampledFiles > 0
  /\ pc' = "augmenting"
  /\ processed' = {}
  /\ applied' = 0
  /\ UNCHANGED <<aggregate, minEvidence, minConfidence, sampledFiles, profile,
                 llmRuleSuggestionsApplied, confidenceSummary, lastSuggestion>>
  /\ Others("learn")

\* The entries the model draws for the response: for the dimensions that have
\* evidence and for one unknown path.
SuggestionPaths(prof) ==
  {p \in RulePaths : prof[p].evidenceCount > 0} \cup {"unknown.rule"}

SuggestedValues(path) ==
  IF path \notin DOMAIN KNOWN_RULES THEN {Num(4)}
  ELSE IF KNOWN_RULES[path].values # {}
  THEN KNOWN_RULES[path].values \cup {Str("bogus")}
  ELSE {Num(4), Num(-3), NonInteger(5, 2), NaN, Str("wide")}

SuggestedConfidences == {Null, Pct(55), Pct(80), Pct(150)}
SuggestedEvidence == {Null, Num(-1), Num(MaxAggCount + 1)}

\* every confidence without an evidence count, every evidence count with
\* one confidence
RawSuggestions(path) ==
  {Null} \cup
  {raw \in [value : SuggestedValues(path), confidence : SuggestedConfidences,
            evidenceCount : SuggestedEvidence] :
     raw.evidenceCount = Null \/ raw.confidence = Pct(80)}

\* One iteration of the loop over Object.entries(suggestions).
AugmentSuggestion ==
  /\ pc = "augmenting"
  /\ Cardinality(processed) < MaxSuggestions
  /\ \E rulePath \in SuggestionPaths(profile) \ processed :
       \E rawSuggestion \in RawSuggestions(rulePath) :
         LET known == rulePath \in DOMAIN KNOWN_RULES
             descriptor == KNOWN_RULES[rulePath]
             skip == \/ ~known
                     \/ rawSuggestion = Null
                     \/ normalizeValue(rawSuggestion.value, descriptor) = Null
             next == nextRule(rawSuggestion, descriptor, sampledFiles,
                              minEvidence, minConfidence)
             current == readRule(rulePath, profile)
             replace == ~skip /\ shouldReplace(current, next)
         IN /\ processed' = processed \cup {rulePath}
            /\ lastSuggestion' =
                 [path |-> rulePath,
                  value |-> IF rawSuggestion = Null THEN Null ELSE rawSuggestion.value]
            /\ profile' = IF replace THEN writeRule(rulePath, profile, next) ELSE profile
            /\ applied' = IF replace THEN applied + 1 ELSE applied
  /\ UNCHANGED <<pc, aggregate, minEvidence, minConfidence, sampledFiles,
                 llmRuleSuggestionsApplied, confidenceSummary>>
  /\ Others("learn")

EndAugment ==
  /\ pc = "augmenting"
  /\ pc' = "done"
  /\ llmRuleSuggestionsApplied' =
       IF applied > 0 THEN Num(applied) ELSE llmRuleSuggestionsApplied
  /\ UNCHANGED <<aggregate, minEvidence, minConfidence, sampledFiles, profile,
                 processed, applied, confidenceSummary, lastSuggestion>>
  /\ Others("learn")

LearnNext ==
  \/ InferProfile
  \/ ReturnProfile
  \/ BeginAugment
  \/ AugmentSuggestion
  \/ EndAugment

SpecLearn == LearnInit /\ [][LearnNext]_vars

\* C2: in the profile inferProfile returns, and after every step of the
\* augmentation loop, each rule has a null value exactly when its status is
\* 'undetermined'.
C2_NullIffUndetermined ==
  pc \in {"inferred", "augmenting", "done"} =>
    \A p \in RulePaths :
      (profile[p].value = Null) <=> (profile[p].status = "undetermined")

\* After augmentation one rule is enforced by a suggestion and another is
\* still undetermined.
C2_Witness ==
  /\ pc = "done"
  /\ \E p \in RulePaths :
       /\ profile[p].provenance = "llm_augmented"
       /\ profile[p].status = "enforced"
       /\ profile[p].value # Null
  /\ \E p \in RulePaths :
       profile[p].status = "undetermined" /\ profile[p].evidenceCount > 0

\* C10 as stated: a rule changes during augmentation only if it was
\* undetermined and the suggestion is enforced, or both are enforced and the
\* suggestion's confidence exceeds the rule's by more than 0.05.
C10_ReplacedOnlyAsStated ==
  [][\A p \in RulePaths :
       (pc = "augmenting" /\ pc' = "augmenting" /\ profile'[p] # profile[p]) =>
         \/ profile[p].status = "undetermined" /\ profile'[p].status = "enforced"
         \/ /\ profile[p].status = "enforced" /\ profile'[p].status = "enforced"
            /\ FracGt(profile'[p].confidence,
                      FracAdd(profile[p].confidence, Pct(5)))]_vars

\* C10 amended: a rule changes during augmentation only if it was not
\* enforced and the suggestion is enforced, or the suggestion has the same
\* status as the rule (both enforced or both undetermined) and its confidence
\* is at least the rule's confidence plus 0.05.
C10_ReplacedOnlyWhenBetter ==
  [][\A p \in RulePaths :
       (pc = "augmenting" /\ pc' = "augmenting" /\ profile'[p] # profile[p]) =>
         /\ profile'[p].provenance = "llm_augmented"
         /\ \/ profile[p].status # "enforced" /\ profile'[p].status = "enforced"
            \/ /\ profile[p].status = profile'[p].status
               /\ FracGeq(profile'[p].confidence,
                          FracAdd(profile[p].confidence, Pct(5)))]_vars

\* An undetermined rule with evidence has been replaced by an undetermined
\* suggestion.
C10_Witness ==
  /\ applied > 0
  /\ \E p \in RulePaths :
       /\ profile[p].provenance = "llm_augmented"
       /\ profile[p].status = "undetermined"
       /\ aggregate # NoCall
       /\ inferProfile(aggregate, minEvidence, minConfidence)[p].evidenceCount > 0

\* the profile maybeAugmentProfileWithLlm was given
ProfileBefore == inferProfile(aggregate, minEvidence, minConfidence)

\* C11: an enforced rule is never replaced by a suggestion that resolves to
\* undetermined or whose confidence is not at least 0.05 higher than the
\* rule's own; every rule that was enforced before augmentation is enforced
\* during and after it.
C11_EnforcedStaysEnforced ==
  /\ [](pc \in {"augmenting", "done"} =>
         \A p \in RulePaths :
           ProfileBefore[p].status = "enforced" => profile[p].status = "enforced")
  /\ [][\A p \in RulePaths :
          (pc = "augmenting" /\ pc' = "augmenting"
             /\ profile[p].status = "enforced" /\ profile'[p] # profile[p]) =>
            /\ profile'[p].status = "enforced"
            /\ FracGeq(profile'[p].confidence,
                       FracAdd(profile[p].confidence, Pct(5)))]_vars

\* The loop read a valid suggestion for a rule that was enforced and kept
\* the rule.
C11_Witness ==
  /\ pc = "augmenting"
  /\ lastSuggestion # Null
  /\ lastSuggestion.path \in RulePaths
  /\ ProfileBefore[lastSuggestion.path].status = "enforced"
  /\ normalizeValue(lastSuggestion.value, KNOWN_RULES[lastSuggestion.path]) # Null
  /\ profile[lastSuggestion.path] = ProfileBefore[lastSuggestion.path]

\* a suggestion the loop is to ignore: an unknown path, a value outside the
\* dimension's set, or for a numeric dimension a value that is not a finite
\* number or is negative
Rejectable(read) ==
  \/ read.path \notin DOMAIN KNOWN_RULES
  \/ /\ read.path \in DOMAIN KNOWN_RULES
     /\ read.value # Null
     /\ IF KNOWN_RULES[read.path].values # {}
        THEN read.value \notin KNOWN_RULES[read.path].values
        ELSE \/ read.value.t \notin {"num", "frac"}
             \/ read.value.t = "num" /\ read.value.v < 0
             \/ read.value.t = "frac" /\ read.value.num < 0

\* C12: a suggestion leaves the profile untouched when its path is not a
\* known rule path, when its value is outside the dimension's valid set, or,
\* for the numeric dimensions, when its value is non-finite or negative.
C12_RejectedLeavesProfile ==
  [][(pc = "augmenting" /\ pc' = "augmenting" /\ Rejectable(lastSuggestion')) =>
       profile' = profile /\ applied' = applied]_vars

\* C13: during and after augmentation every rule that differs from the rule
\* inferProfile returned carries provenance 'llm_augmented' and was named
\* by a suggestion, the number of rules that differ is the number of
\* replacements counted, and when at least one rule was replaced
\* evidence.llmRuleSuggestionsApplied is that number.
C13_ReplacedMarkedAndCounted ==
  pc \in {"augmenting", "done"} =>
    /\ \A p \in RulePaths :
         profile[p] # ProfileBefore[p] =>
           profile[p].provenance = "llm_augmented" /\ p \in processed
    /\ Cardinality({p \in RulePaths : profile[p] # ProfileBefore[p]}) = applied
    /\ pc = "done" =>
         llmRuleSuggestionsApplied = IF applied > 0 THEN Num(applied) ELSE Null

\* Augmentation ended with one rule replaced and another rule, which has
\* evidence, as inferProfile returned it.
C13_Witness ==
  /\ pc = "done"
  /\ llmRuleSuggestionsApplied = Num(1)
  /\ \E p, q \in RulePaths :
       /\ profile[p].provenance = "llm_augmented"
       /\ q \in processed
       /\ profile[q] = ProfileBefore[q]
       /\ profile[q].evidenceCount > 0

-----------------------------------------------------------------------------
\* SpecReplace: applyReplacements applied to every source and every array of
\* replacements within the bounds.

MaxSourceLen == 3
MaxReplacements == 2

Letters == <<"a", "b", "c", "d", "e", "f">>
ReplaceSources == {SubSeq(Letters, 1, n) : n \in 1 .. MaxSourceLen}
ReplacementTexts == {<<>>, <<"X", "Y">>}

\* every range of the string, with the empty and the inverted ones
ReplacementsOf(s) ==
  {r \in [start : 0 .. Len(s), end : -1 .. Len(s), text : ReplacementTexts] :
     r.end >= r.start - 1}

ReplacementArrays(s) ==
  UNION {[1 .. n -> ReplacementsOf(s)] : n \in 0 .. MaxReplacements}

ReplaceInit ==
  /\ normalizer = "applyReplacements"
  /\ source \in ReplaceSources
  /\ replacements \in {<<array>> : array \in ReplacementArrays(source)}
  /\ consumed = <<>>
  /\ referenceSource = Null
  /\ ruleValue = Null
  /\ indentKind = "space"
  /\ indentSize = 0
  /\ outputs = <<>>
  /\ Idle("apply")

CallApplyReplacements ==
  /\ normalizer = "applyReplacements"
  /\ outputs = <<>>
  /\ outputs' = <<applyReplacements(source, replacements[1])>>
  /\ UNCHANGED <<normalizer, source, referenceSource, ruleValue, indentKind,
                 indentSize, replacements, consumed>>
  /\ Others("apply")

ReplaceNext == CallApplyReplacements

SpecReplace == ReplaceInit /\ [][ReplaceNext]_vars

\* Two replacements overlap when their ranges share a character or are the
\* same range.
Overlap(a, b) == a.start < b.end /\ b.start < a.end

PairwiseDisjoint(rs) ==
  \A i, j \in 1 .. Len(rs) : i # j => ~Overlap(rs[i], rs[j]) /\ rs[i] # rs[j]

NonEmptyRanges(rs) == \A i \in 1 .. Len(rs) : rs[i].start < rs[i].end

\* The original with each range [start, end) substituted by its text, read
\* off the original from left to right.
RECURSIVE Substituted(_, _, _)
Substituted(s, rs, index) ==
  IF index >= Len(s) THEN <<>>
  ELSE IF \E i \in 1 .. Len(rs) : rs[i].start = index
  THEN LET r == rs[CHOOSE i \in 1 .. Len(rs) : rs[i].start = index]
       IN r.text \o Substituted(s, rs, r.end)
  ELSE <<s[index + 1]>> \o Substituted(s, rs, index + 1)

\* C8: for a pairwise-disjoint array of replacements with non-empty ranges,
\* whatever its order, applyReplacements returns the original with each
\* range substituted by its text, all offsets read against the original.
C8_OrderIndependent ==
  (normalizer = "applyReplacements" /\ outputs # <<>>
     /\ PairwiseDisjoint(replacements[1]) /\ NonEmptyRanges(replacements[1])) =>
    outputs[1] = Substituted(source, replacements[1], 0)

\* Two disjoint replacements given in ascending order, the first one changing
\* the length of the text before the second.
C8_Witness ==
  /\ normalizer = "applyReplacements"
  /\ outputs # <<>>
  /\ Len(replacements[1]) = 2
  /\ PairwiseDisjoint(replacements[1])
  /\ NonEmptyRanges(replacements[1])
  /\ replacements[1][1].end <= replacements[1][2].start
  /\ Len(replacements[1][1].text) # replacements[1][1].end - replacements[1][1].start
  /\ outputs[1] # source

InvertedRange(r) == r.end < r.start
EmptyRange(r) == r.end = r.start

WithoutInverted(rs) == SelectSeq(rs, LAMBDA r : ~InvertedRange(r))

\* C21 as stated: when every replacement of the array has a range of zero or
\* negative length (end <= start), all of them are dropped and the text is
\* returned unchanged.
C21_EmptyAndInvertedDropped ==
  (normalizer = "applyReplacements" /\ outputs # <<>>
     /\ \A i \in 1 .. Len(replacements[1]) : replacements[1][i].end <= replacements[1][i].start) =>
    outputs[1] = source

\* C21 amended: a replacement whose range is inverted (end < start) is
\* dropped, so the result is that of the array without the inverted ranges
\* and an array of inverted ranges only leaves the text unchanged; a range of
\* zero length (end = start) is not dropped: its text is inserted at start.
C21_InvertedDroppedEmptyInserted ==
  (normalizer = "applyReplacements" /\ outputs # <<>>) =>
    LET rs == replacements[1]
    IN /\ outputs[1] = applyReplacements(source, WithoutInverted(rs))
       /\ (\A i \in 1 .. Len(rs) : InvertedRange(rs[i])) => outputs[1] = source
       /\ \A i \in 1 .. Len(rs) :
            (EmptyRange(rs[i]) /\ \A j \in 1 .. Len(rs) : j # i => InvertedRange(rs[j])) =>
              outputs[1] = SubSeq(source, 1, rs[i].start) \o rs[i].text \o
                             SubSeq(source, rs[i].start + 1, Len(source))

\* An inverted range next to a range of zero length that carries text: the
\* first is dropped and the text of the second is inserted.
C21_Witness ==
  /\ normalizer = "applyReplacements"
  /\ outputs # <<>>
  /\ Len(replacements[1]) = 2
  /\ InvertedRange(replacements[1][1])
  /\ EmptyRange(replacements[1][2])
  /\ replacements[1][2].text # <<>>
  /\ Len(outputs[1]) = Len(source) + Len(replacements[1][2].text)

-----------------------------------------------------------------------------
\* SpecSignature: nodeSignature taken of the nodes of two pieces of code, as
\* the replay does for a reference source and a current source.

SignatureInit ==
  /\ normalizer = "nodeSignature"
  /\ source \in Codes
  /\ referenceSource \in Codes
  /\ ruleValue = Null
  /\ indentKind = "space"
  /\ indentSize = 0
  /\ replacements = <<>>
  /\ consumed = <<>>
  /\ outputs = <<>>
  /\ Idle("apply")

CallNodeSignature ==
  /\ normalizer = "nodeSignature"
  /\ outputs = <<>>
  /\ outputs' = <<nodeSignature(ParseExpression(source)),
                  nodeSignature(ParseExpression(referenceSource))>>
  /\ UNCHANGED <<normalizer, source, referenceSource, ruleValue, indentKind,
                 indentSize, replacements, consumed>>
  /\ Others("apply")

SignatureNext == CallNodeSignature

SpecSignature == SignatureInit /\ [][SignatureNext]_vars

\* Two shapes of the same construct that differ in an operator or in the
\* value of a literal.
DifferInOperatorOrLiteral(a, b) ==
  /\ a.kind = b.kind
  /\ IF a.kind = "literal" THEN a.value # b.value
     ELSE \/ a.operator # b.operator
          \/ a.left.value # b.left.value
          \/ a.right.value # b.right.value

\* C7: two nodes whose code differs only in formatting have equal signatures,
\* and two nodes that differ in an operator or in a literal value have
\* different signatures.
C7_SignatureOfShape ==
  (normalizer = "nodeSignature" /\ outputs # <<>>) =>
    /\ source.shape = referenceSource.shape => outputs[1] = outputs[2]
    /\ DifferInOperatorOrLiteral(source.shape, referenceSource.shape) =>
         outputs[1] # outputs[2]

\* The same binary expression written at another column, with a comment,
\* with parentheses and with its literals spelled differently: the two nodes
\* differ, their signatures do not.
C7_Witness ==
  /\ normalizer = "nodeSignature"
  /\ outputs # <<>>
  /\ source.shape = referenceSource.shape
  /\ source.shape.kind = "binary"
  /\ source.formatting.column # referenceSource.formatting.column
  /\ source.formatting.commented # referenceSource.formatting.commented
  /\ source.formatting.parenthesized # referenceSource.formatting.parenthesized
  /\ source.formatting.spelling # referenceSource.formatting.spelling
  /\ ParseExpression(source) # ParseExpression(referenceSource)
  /\ outputs[1] = outputs[2]

-----------------------------------------------------------------------------
\* SpecSwitch: applySwitchCaseBreakIndentation over switch statements whose
\* cases hold their break on a line of its own, after the label on the same
\* line, after another statement, or not at all.

MaxIndent == 2
MaxCases == 2

CaseLayouts == {"own", "inline", "after", "sameLine", "none"}
IndentSizes == {0, 1}
IndentKinds == {"space", "tab"}

RenderCase(caseIndent, breakIndent, layout) ==
  Repeat(" ", caseIndent) \o <<"C">> \o
    CASE layout = "own" -> <<"\n">> \o Repeat(" ", breakIndent) \o <<"B", "\n">>
      [] layout = "inline" -> <<" ", "B", "\n">>
      [] layout = "after" ->
           <<"\n">> \o Repeat(" ", breakIndent) \o <<"s", "\n">>
             \o Repeat(" ", breakIndent) \o <<"B", "\n">>
      [] layout = "sameLine" ->
           <<"\n">> \o Repeat(" ", breakIndent) \o <<"s", " ", "B", "\n">>
      [] OTHER -> <<"\n">> \o Repeat(" ", breakIndent) \o <<"s", "\n">>

RECURSIVE RenderCases(_, _, _)
RenderCases(caseIndent, breakIndent, layouts) ==
  IF layouts = <<>> THEN <<>>
  ELSE RenderCase(caseIndent, breakIndent, Head(layouts))
         \o RenderCases(caseIndent, breakIndent, Tail(layouts))

RenderSwitch(caseIndent, breakIndent, layouts) ==
  <<"S", "\n">> \o RenderCases(caseIndent, breakIndent, layouts) \o <<"}", "\n">>

SwitchSources ==
  {RenderSwitch(c, b, layouts) :
     c \in 0 .. MaxIndent, b \in 0 .. MaxIndent,
     layouts \in UNION {[1 .. n -> CaseLayouts] : n \in 1 .. MaxCases}}
  \cup {<<"S", "\n", "C", "\n", " ", "B", "\n">>}   \* no closing brace

SwitchInit ==
  /\ normalizer = "applySwitchCaseBreakIndentation"
  /\ source \in SwitchSources
  /\ referenceSource = Null
  /\ ruleValue \in {Null, Str("match-case"), Str("indent")}
  /\ indentKind \in IndentKinds
  /\ indentSize \in IndentSizes
  /\ replacements = <<>>
  /\ consumed = <<>>
  /\ outputs = <<>>
  /\ Idle("apply")

CallSwitchCaseBreakIndentation ==
  /\ normalizer = "applySwitchCaseBreakIndentation"
  /\ outputs = <<>>
  /\ LET edits == SwitchCaseBreakEdits(source, ruleValue, indentKind, indentSize)
     IN replacements' = IF edits = Null THEN <<>> ELSE <<edits.list>>
  /\ outputs' = <<applySwitchCaseBreakIndentation(source, ruleValue, indentKind,
                                                  indentSize)>>
  /\ UNCHANGED <<normalizer, source, referenceSource, ruleValue, indentKind,
                 indentSize, consumed>>
  /\ Others("apply")

SwitchNext == CallSwitchCaseBreakIndentation

SpecSwitch == SwitchInit /\ [][SwitchNext]_vars

RECURSIVE StripLeadingWhitespace(_)
StripLeadingWhitespace(line) ==
  IF line # <<>> /\ IsWhitespace(Head(line)) THEN StripLeadingWhitespace(Tail(line))
  ELSE line

NonWhitespace(s) == SelectSeq(s, LAMBDA ch : ~IsWhitespace(ch))

HoldsBreak(line) == \E i \in 1 .. Len(line) : line[i] = "B"

\* C5: the switch-break normalizer rewrites only the leading whitespace of
\* lines that hold a break statement: line by line the output equals the
\* input after its leading whitespace, only break lines change, and every
\* non-whitespace character of the input is still there in the same order.
C5_OnlyLeadingWhitespace ==
  (normalizer = "applySwitchCaseBreakIndentation" /\ outputs # <<>>) =>
    LET before == SplitLines(source, <<>>)
        after == SplitLines(outputs[1], <<>>)
    IN /\ NonWhitespace(outputs[1]) = NonWhitespace(source)
       /\ Len(after) = Len(before)
       /\ \A i \in 1 .. Len(before) :
            /\ StripLeadingWhitespace(after[i]) = StripLeadingWhitespace(before[i])
            /\ after[i] # before[i] => HoldsBreak(before[i])

-----------------------------------------------------------------------------
\* SpecReplay: applyTernaryLayout and applyMemberExpressionIndentation, each
\* called once on a current source and a reference: the same statements in
\* another writing, no reference, an empty one, one that is no program, or one
\* of other statements.

MaxTernaries == 2
MaxChains == 2

Indent2 == <<" ", " ">>
Indent4 == <<" ", " ", " ", " ">>

\* how a statement is written: on one line, broken before its operators
\* (leading) or after them (trailing), with a comment before the question
\* mark, or with only the outer of two nested ternaries broken
TernaryWritings(shape, reference) ==
  IF shape = "simple"
  THEN (IF reference = "trailing" THEN {"single"}
        ELSE {"single", "leading", "commented"})
  ELSE (IF reference = "leading" THEN {"single", "outer"} ELSE {"single"})

ReferenceWritings(shape) ==
  IF shape = "simple" THEN {"single", "leading", "trailing"}
  ELSE {"single", "leading", "outer"}

RenderTernary(shape, writing) ==
  (IF shape = "simple"
   THEN CASE writing = "single" -> <<"a", " ", "?", " ", "b", " ", ":", " ", "c">>
          [] writing = "leading" ->
               <<"a", "\n">> \o Indent2 \o <<"?", " ", "b", "\n">>
                 \o Indent2 \o <<":", " ", "c">>
          [] writing = "trailing" ->
               <<"a", " ", "?", "\n">> \o Indent2 \o <<"b", " ", ":", "\n">>
                 \o Indent2 \o <<"c">>
          [] OTHER -> <<"a", " ", "#", " ", "?", " ", "b", " ", ":", " ", "c">>
   ELSE CASE writing = "single" ->
               <<"a", " ", "?", " ", "b", " ", "?", " ", "c", " ", ":", " ", "d",
                 " ", ":", " ", "e">>
          [] writing = "leading" ->
               <<"a", "\n">> \o Indent2 \o <<"?", " ", "b", "\n">>
                 \o Indent4 \o <<"?", " ", "c", "\n">>
                 \o Indent4 \o <<":", " ", "d", "\n">>
                 \o Indent2 \o <<":", " ", "e">>
          [] OTHER ->
               <<"a", "\n">> \o Indent2
                 \o <<"?", " ", "b", " ", "?", " ", "c", " ", ":", " ", "d", "\n">>
                 \o Indent2 \o <<":", " ", "e">>)
    \o <<";", "\n">>

Statement(shape, current, reference) ==
  [shape |-> shape, current |-> current, reference |-> reference]

TernaryStatements ==
  UNION {UNION {{Statement(shape, current, reference) :
                   current \in TernaryWritings(shape, reference)} :
                  reference \in ReferenceWritings(shape)} :
           shape \in {"simple", "nested"}}

RECURSIVE RenderTernaries(_, _)
RenderTernaries(program, side) ==
  IF program = <<>> THEN <<>>
  ELSE RenderTernary(Head(program).shape, Head(program)[side])
         \o RenderTernaries(Tail(program), side)

NoProgram == <<"a", " ", "?", " ", "b", ";", "\n">>

OtherReferences ==
  {Null, Str(<<>>), Str(NoProgram), Str(RenderTernary("nested", "leading")),
   Str(<<"o", "\n", " ", ".", "m", "\n", " ", ".", "n", "\n", " ", ".", "c", ";">>)}

TernaryInit ==
  /\ normalizer = "applyTernaryLayout"
  /\ \E program \in UNION {[1 .. n -> TernaryStatements] : n \in 1 .. MaxTernaries} :
       /\ source \in {RenderTernaries(program, "current")}
                       \cup (IF Len(program) = 1 THEN {NoProgram} ELSE {})
       /\ referenceSource \in {Str(RenderTernaries(program, "reference"))}
                                \cup (IF Len(program) = 1 THEN OtherReferences ELSE {})
  /\ ruleValue \in {Null, Str("leading"), Str("trailing")}
  /\ indentKind \in IndentKinds
  /\ indentSize = DefaultIndentSize
  /\ replacements = <<>>
  /\ consumed = <<>>
  /\ outputs = <<>>
  /\ Idle("apply")

CallTernaryLayout ==
  /\ normalizer = "applyTernaryLayout"
  /\ outputs = <<>>
  /\ \E outcome \in {applyTernaryLayout(source, ruleValue, indentKind, indentSize,
                                          referenceSource)} :
        /\ outputs' = <<outcome.output>>
        /\ replacements' = outcome.replacements
        /\ consumed' = outcome.consumed
  /\ UNCHANGED <<normalizer, source, referenceSource, ruleValue, indentKind,
                 indentSize>>
  /\ Others("apply")

\* o.m().n(): each separator on the line or broken onto a line of its own
ChainWritings(reference) ==
  CASE reference = "flat" -> {"flat", "first", "both"}
    [] reference = "second" -> {"flat", "first"}
    [] OTHER -> {"flat", "both"}

Separator(broken) == IF broken THEN <<"\n">> \o Indent2 \o <<".">> ELSE <<".">>

RenderChain(writing) ==
  <<"o">> \o Separator(writing \in {"first", "both"}) \o <<"m">>
    \o Separator(writing \in {"second", "both"}) \o <<"n", ";", "\n">>

ChainStatements ==
  UNION {{Statement("chain", current, reference) :
            current \in ChainWritings(reference)} :
           reference \in {"flat", "second", "both"}}

RECURSIVE RenderChains(_, _)
RenderChains(program, side) ==
  IF program = <<>> THEN <<>>
  ELSE RenderChain(Head(program)[side]) \o RenderChains(Tail(program), side)

MemberInit ==
  /\ normalizer = "applyMemberExpressionIndentation"
  /\ \E program \in UNION {[1 .. n -> ChainStatements] : n \in 1 .. MaxChains} :
       /\ source \in {RenderChains(program, "current")}
                       \cup (IF Len(program) = 1 THEN {NoProgram} ELSE {})
       /\ referenceSource \in {Str(RenderChains(program, "reference"))}
                                \cup (IF Len(program) = 1 THEN OtherReferences ELSE {})
  /\ ruleValue \in {Null, Str("aligned"), Str("indented")}
  /\ indentKind \in IndentKinds
  /\ indentSize \in IndentSizes
  /\ replacements = <<>>
  /\ consumed = <<>>
  /\ outputs = <<>>
  /\ Idle("apply")

CallMemberExpressionIndentation ==
  /\ normalizer = "applyMemberExpressionIndentation"
  /\ outputs = <<>>
  /\ \E outcome \in {applyMemberExpressionIndentation(source, ruleValue, indentKind,
                                                        indentSize, referenceSource)} :
        /\ outputs' = <<outcome.output>>
        /\ replacements' = outcome.replacements
        /\ consumed' = outcome.consumed
  /\ UNCHANGED <<normalizer, source, referenceSource, ruleValue, indentKind,
                 indentSize>>
  /\ Others("apply")

ReplayInit == TernaryInit \/ MemberInit

ReplayNext ==
  \/ CallTernaryLayout
  \/ CallMemberExpressionIndentation

SpecReplay == ReplayInit /\ [][ReplayNext]_vars

\* C3: in every normalizer pass, the replacements collected for one source
\* string are pairwise disjoint: no two of them cover overlapping or
\* identical ranges.
C3_ReplacementsDisjoint ==
  normalizer \in {"applyTernaryLayout", "applyMemberExpressionIndentation"} =>
    \A pass \in 1 .. Len(replacements) : PairwiseDisjoint(replacements[pass])

\* The constructs a replay visits in a text, in traversal order.
Constructs(text) ==
  IF parseAst(text) = Null THEN <<>>
  ELSE IF normalizer = "applyTernaryLayout"
  THEN NodesOfTypeIn(parseAst(text).body, "ConditionalExpression")
  ELSE CallsNotObjectIn(parseAst(text).body)

\* k, for the k-th construct with its signature
Rank(nodes, index) ==
  Cardinality({j \in 1 .. index : nodeSignature(nodes[j]) = nodeSignature(nodes[index])})

\* the layout the replay reads from a construct of the reference, Null when
\* it records none
LayoutRead(text, node) ==
  IF normalizer = "applyTernaryLayout" THEN ternaryPlacement(text, node)
  ELSE MemberChainLayout(text, node)

\* the positions of the constructs of the reference that record a layout
\* under a signature, in order
RECURSIVE RecordingFrom(_, _, _, _)
RecordingFrom(text, key, nodes, index) ==
  IF index > Len(nodes) THEN <<>>
  ELSE (IF nodeSignature(nodes[index]) = key /\ LayoutRead(text, nodes[index]) # Null
        THEN <<index>> ELSE <<>>)
         \o RecordingFrom(text, key, nodes, index + 1)

Recording(text, key) == RecordingFrom(text, key, Constructs(text), 1)

Replayed ==
  /\ normalizer \in {"applyTernaryLayout", "applyMemberExpressionIndentation"}
  /\ outputs # <<>>
  /\ referenceSource # Null

\* C6 as stated: the k-th construct with a signature in the current source
\* receives the layout observed on the k-th construct with that signature in
\* the reference source.
C6_PairedByPosition ==
  Replayed =>
    \A i \in 1 .. Len(consumed) :
      Rank(Constructs(source), consumed[i].construct)
        = Rank(Constructs(referenceSource.v), consumed[i].observation.origin)

\* C6: the observations recorded for a signature are dequeued first in first
\* out and at most once each; the k-th construct with a signature in the
\* current source dequeues the k-th observation recorded for that signature,
\* that is the layout of the k-th construct of the reference that records one.
C6_PairedWithRecorded ==
  Replayed =>
    LET current == Constructs(source)
        reference == Constructs(referenceSource.v)
    IN /\ \A i \in 1 .. Len(consumed) :
            LET entry == consumed[i]
                recording == Recording(referenceSource.v, entry.key)
                k == Rank(current, entry.construct)
            IN /\ entry.key = nodeSignature(current[entry.construct])
               /\ k <= Len(recording)
               /\ entry.observation.origin = recording[k]
               /\ entry.observation.layout
                    = LayoutRead(referenceSource.v, reference[recording[k]])
       /\ \A i, j \in 1 .. Len(consumed) :
            /\ i # j => consumed[i].observation.origin # consumed[j].observation.origin
            /\ (i < j /\ consumed[i].key = consumed[j].key) =>
                 consumed[i].observation.origin < consumed[j].observation.origin
       /\ \A i \in 1 .. Len(consumed) : \A j \in 1 .. consumed[i].construct :
            nodeSignature(current[j]) = consumed[i].key =>
              \E h \in 1 .. i : consumed[h].construct = j

\* Two constructs of the same signature each dequeued an observation, and the
\* reference holds a construct of that signature that recorded none before
\* the one the first observation was read from.
C6_Witness ==
  /\ Replayed
  /\ Len(consumed) >= 2
  /\ consumed[1].key = consumed[2].key
  /\ consumed[1].observation.origin # consumed[2].observation.origin
  /\ \E i, j \in 1 .. Len(consumed) :
       /\ consumed[i].used /\ ~consumed[j].used
       /\ consumed[i].key = consumed[j].key

ReferenceFailsToParse ==
  referenceSource # Null /\ parseAst(referenceSource.v) = Null

\* C9 as stated: the normalizer returns its input unchanged whenever the rule
\* value is null, the current source fails to parse, or a supplied reference
\* source fails to parse.
C9_UnchangedOnAnyFailure ==
  (normalizer \in {"applyTernaryLayout", "applyMemberExpressionIndentation"}
     /\ outputs # <<>>
     /\ (ruleValue = Null \/ parseAst(source) = Null \/ ReferenceFailsToParse)) =>
    outputs[1] = source

\* C9: the normalizer returns its input unchanged whenever the rule value is
\* null or the current source fails to parse; when a supplied reference fails
\* to parse nothing is replayed: the ternary normalizer returns its input
\* unchanged and the member-chain normalizer returns what it returns without
\* a reference.
C9_UnchangedOrNoReplay ==
  (normalizer \in {"applyTernaryLayout", "applyMemberExpressionIndentation"}
     /\ outputs # <<>>) =>
    /\ (ruleValue = Null \/ parseAst(source) = Null) =>
         outputs[1] = source /\ replacements = <<>>
    /\ ReferenceFailsToParse =>
         /\ consumed = <<>>
         /\ normalizer = "applyTernaryLayout" => outputs[1] = source
         /\ normalizer = "applyMemberExpressionIndentation" =>
              outputs[1] = applyMemberExpressionIndentation(
                             source, ruleValue, indentKind, indentSize, Null).output

\* The member-chain normalizer was given a reference that is no program and
\* still rewrote the indentation of the current source.
C9_Witness ==
  /\ normalizer = "applyMemberExpressionIndentation"
  /\ outputs # <<>>
  /\ ReferenceFailsToParse
  /\ parseAst(source) # Null
  /\ ruleValue # Null
  /\ outputs[1] # source

-----------------------------------------------------------------------------
\* SpecIf: applySingleLineIfStyle called on a source, then again on what it
\* returned.

MaxNesting == 2
MaxPasses == 2

Form(kind, gap, body, else) == [kind |-> kind, gap |-> gap, body |-> body, else |-> else]

\* a statement: an expression statement, alone or followed by a comment, or
\* an if or a block around a statement
RECURSIVE Forms(_)
Forms(depth) ==
  IF depth = 0
  THEN {Form(kind, "none", Null, FALSE) : kind \in {"expression", "noted"}}
  ELSE Forms(depth - 1)
         \cup {Form("if", gap, body, else) :
                 gap \in {"line", "space", "comment"}, body \in Forms(depth - 1),
                 else \in BOOLEAN}
         \cup {Form("block", "line", body, FALSE) : body \in Forms(depth - 1)}

NewLine(depth) == <<"\n">> \o Repeat(" ", 2 * depth)

RECURSIVE RenderForm(_, _)
RenderForm(form, depth) ==
  CASE form.kind = "expression" -> <<"c", ";">>
    [] form.kind = "noted" -> <<"c", ";", " ", "#">>
    [] form.kind = "block" ->
         <<"{">> \o NewLine(depth + 1) \o RenderForm(form.body, depth + 1)
           \o NewLine(depth) \o <<"}">>
    [] OTHER ->
         <<"i", " ", "(", "a", ")">>
           \o (CASE form.gap = "line" -> NewLine(depth + 1)
                 [] form.gap = "space" -> <<" ">>
                 [] OTHER -> <<" ", "#">> \o NewLine(depth + 1))
           \o RenderForm(form.body, depth + 1)
           \o (IF form.else THEN NewLine(depth) \o <<"E", " ", "d", ";">> ELSE <<>>)

IfSources == {RenderForm(form, 0) \o <<"\n">> : form \in Forms(MaxNesting)}
               \cup {<<"i", " ", "(", "a", "\n">>}

IfInit ==
  /\ normalizer = "applySingleLineIfStyle"
  /\ source \in IfSources
  /\ referenceSource = Null
  /\ ruleValue \in {Null, Str("omit"), Str("require")}
  /\ indentKind = "space"
  /\ indentSize = DefaultIndentSize
  /\ replacements = <<>>
  /\ consumed = <<>>
  /\ outputs = <<>>
  /\ Idle("apply")

\* a pass over the source, or over what the pass before returned
CallSingleLineIfStyle ==
  /\ normalizer = "applySingleLineIfStyle"
  /\ Len(outputs) < MaxPasses
  /\ \E outcome \in {applySingleLineIfStyle(
                       IF outputs = <<>> THEN source ELSE outputs[Len(outputs)],
                       ruleValue)} :
        /\ outputs' = Append(outputs, outcome.output)
        /\ replacements' = replacements \o outcome.replacements
  /\ UNCHANGED <<normalizer, source, referenceSource, ruleValue, indentKind,
                 indentSize, consumed>>
  /\ Others("apply")

IfNext == CallSingleLineIfStyle

SpecIf == IfInit /\ [][IfNext]_vars

\* C4: the single-line conditional normalizer is idempotent: a second pass
\* over what the first pass returned returns it unchanged.
C4_Idempotent ==
  (normalizer = "applySingleLineIfStyle" /\ ruleValue = Str("omit")
     /\ Len(outputs) >= 2) =>
    outputs[2] = outputs[1]

-----------------------------------------------------------------------------
\* SpecSafeOnly: applyStyle chooses the profile it hands to applyBiome.

MaxOverrides == 2

\* The values a rule may be enforced with.
EnforcedValues(path) ==
  IF path = "whitespace.indentationSize" THEN {Num(2), Num(4)}
  ELSE KNOWN_RULES[path].values

\* A rule as a profile file may carry it: undetermined with no value or
\* enforced with one of its values, marked safe to fix or not.
RuleVariants(path) ==
  [value : {Null}, status : {"undetermined"}, confidence : {Zero},
   evidenceCount : {0}, provenance : {"deterministic"}, autoFixSafe : BOOLEAN]
  \cup
  [value : EnforcedValues(path), status : {"enforced"}, confidence : {One},
   evidenceCount : {3}, provenance : {"deterministic"}, autoFixSafe : BOOLEAN]

UndeterminedRules ==
  [path \in ApplyPaths |->
     [value |-> Null, status |-> "undetermined", confidence |-> Zero,
      evidenceCount |-> 0, provenance |-> "deterministic",
      autoFixSafe |-> KNOWN_RULES[path].autoFixSafe]]

\* Rule tables that differ from the undetermined one in at most count rules.
RECURSIVE RuleTables(_)
RuleTables(count) ==
  IF count = 0 THEN {UndeterminedRules}
  ELSE RuleTables(count - 1) \cup
       {[flat EXCEPT ![path] = variant] :
          <<flat, path, variant>> \in
            {<<f, p, r>> \in RuleTables(count - 1) \X ApplyPaths \X
                              UNION {RuleVariants(q) : q \in ApplyPaths} :
               r \in RuleVariants(p)}}

Profiles(count) ==
  {[schemaVersion |-> "1.0.0", rules |-> RulesObject(flat)] : flat \in RuleTables(count)}

SafeOnlyInit ==
  /\ Idle("run")
  /\ step = "start"
  /\ input \in [profile : Profiles(MaxOverrides), safeOnly : BOOLEAN, write : {FALSE}]
  /\ effectiveProfile = Null
  /\ targetFiles = <<>>
  /\ scratchFiles = Null
  /\ beforeByFile = <<>>
  /\ afterByFile = <<>>
  /\ report = Null

\* const effectiveProfile = input.safeOnly ? safeOnlyProfile(profile) : profile
SelectProfile ==
  /\ step = "start"
  /\ effectiveProfile' =
       IF input.safeOnly THEN safeOnlyProfile(input.profile) ELSE input.profile
  /\ step' = "selected"
  /\ UNCHANGED <<input, targetFiles, scratchFiles, beforeByFile, afterByFile, report>>
  /\ Others("run")

SafeOnlyNext == SelectProfile

SpecSafeOnly == SafeOnlyInit /\ [][SafeOnlyNext]_vars

\* C14: in safe-only mode a rule not marked autoFixSafe reaches applyBiome
\* undetermined with a null value, so the configuration writer does not
\* treat it as enforced and the normalizers get no style for it; a rule
\* marked autoFixSafe reaches applyBiome as the caller gave it; and the
\* caller's profile is left as it was.
C14_SafeOnlySuppressesUnsafe ==
  /\ [](step = "selected" /\ input.safeOnly =>
          \A path \in ApplyPaths :
            LET before == RuleOf(input.profile, path)
                after == RuleOf(effectiveProfile, path)
            IN IF before.autoFixSafe
               THEN after = before
               ELSE /\ after = [before EXCEPT !.status = "undetermined", !.value = Null]
                    /\ ~enforced(after)
                    /\ styleOf(after) = Null)
  /\ [][input' = input]_vars

\* Safe-only mode met a profile with an enforced rule that is not safe to
\* fix and an enforced rule that is.
C14_Witness ==
  /\ step = "selected"
  /\ input.safeOnly
  /\ \E path \in ApplyPaths :
       /\ enforced(RuleOf(input.profile, path))
       /\ ~RuleOf(input.profile, path).autoFixSafe
       /\ ~enforced(RuleOf(effectiveProfile, path))
  /\ \E path \in ApplyPaths :
       /\ enforced(RuleOf(input.profile, path))
       /\ RuleOf(input.profile, path).autoFixSafe
       /\ enforced(RuleOf(effectiveProfile, path))

-----------------------------------------------------------------------------
\* SpecApply: applyStyle on the files of the target repositories, with the
\* formatter as an external program that may rewrite each file it is given
\* or fail.

MaxFiles == 2

FileNames == <<"a.js", "b.js", "c.js", "d.js">>

\* What a file may hold, before and after the formatter ran.
FileContents ==
  {RenderSwitch(0, breakIndent, <<"own">>) : breakIndent \in 0 .. MaxIndent}

FileSystems ==
  UNION {[{FileNames[i] : i \in 1 .. count} -> FileContents] : count \in 1 .. MaxFiles}

ApplyProfiles ==
  {[schemaVersion |-> "1.0.0",
    rules |-> RulesObject([UndeterminedRules EXCEPT
                             !["whitespace.switchCaseBreakIndentation"] = variant])] :
     variant \in RuleVariants("whitespace.switchCaseBreakIndentation")}

ApplyInit ==
  /\ Idle("run")
  /\ step = "start"
  /\ input \in [profile : ApplyProfiles, safeOnly : BOOLEAN, write : BOOLEAN]
  /\ effectiveProfile = Null
  /\ targetFiles \in FileSystems
  /\ scratchFiles = Null
  /\ beforeByFile = <<>>
  /\ afterByFile = <<>>
  /\ report = Null

\* applyBiome up to the styles: the scratch directory is made in a dry run,
\* and every file is read
ReadFiles ==
  /\ step = "selected"
  /\ scratchFiles' = IF input.write THEN Null ELSE Dir(<<>>)
  /\ beforeByFile' = targetFiles
  /\ step' = "read"
  /\ UNCHANGED <<input, effectiveProfile, targetFiles, afterByFile, report>>
  /\ Others("run")

\* write: the formatter runs on the files themselves
RunBiomeOnTargets ==
  /\ step = "read"
  /\ input.write
  /\ targetFiles' \in [DOMAIN targetFiles -> FileContents]
  /\ step' = "checked"
  /\ UNCHANGED <<input, effectiveProfile, scratchFiles, beforeByFile, afterByFile, report>>
  /\ Others("run")

\* dry run: every file is copied under the scratch directory
CopyToScratch ==
  /\ step = "read"
  /\ ~input.write
  /\ scratchFiles' = Dir(targetFiles)
  /\ step' = "copied"
  /\ UNCHANGED <<input, effectiveProfile, targetFiles, beforeByFile, afterByFile, report>>
  /\ Others("run")

\* dry run: the formatter runs on the copies
RunBiomeOnCopies ==
  /\ step = "copied"
  /\ \E files \in [DOMAIN targetFiles -> FileContents] : scratchFiles' = Dir(files)
  /\ step' = "checked"
  /\ UNCHANGED <<input, effectiveProfile, targetFiles, beforeByFile, afterByFile, report>>
  /\ Others("run")

\* runBiomeCheck throws
BiomeFails ==
  /\ \/ step = "read" /\ input.write
     \/ step = "copied"
  /\ step' = "failed"
  /\ UNCHANGED <<input, effectiveProfile, targetFiles, scratchFiles, beforeByFile,
                 afterByFile, report>>
  /\ Others("run")

\* write: each file is read back, normalized, and written when it differs
NormalizeTargets ==
  /\ step = "checked"
  /\ input.write
  /\ afterByFile' =
       [file \in DOMAIN targetFiles |->
          normalize(targetFiles[file], effectiveProfile, beforeByFile[file])]
  /\ targetFiles' =
       [file \in DOMAIN targetFiles |->
          IF afterByFile'[file] # targetFiles[file]
          THEN afterByFile'[file] ELSE targetFiles[file]]
  /\ step' = "normalized"
  /\ UNCHANGED <<input, effectiveProfile, scratchFiles, beforeByFile, report>>
  /\ Others("run")

\* dry run: each copy is read back and normalized; nothing is written
NormalizeCopies ==
  /\ step = "checked"
  /\ ~input.write
  /\ afterByFile' =
       [file \in DOMAIN targetFiles |->
          normalize(scratchFiles.files[file], effectiveProfile, beforeByFile[file])]
  /\ step' = "normalized"
  /\ UNCHANGED <<input, effectiveProfile, targetFiles, scratchFiles, beforeByFile, report>>
  /\ Others("run")

BuildReport ==
  /\ step = "normalized"
  /\ report' = buildReport(input.write, beforeByFile, afterByFile)
  /\ step' = "reported"
  /\ UNCHANGED <<input, effectiveProfile, targetFiles, scratchFiles, beforeByFile,
                 afterByFile>>
  /\ Others("run")

\* finally: the scratch directory is removed
RemoveScratch ==
  /\ step \in {"reported", "failed"}
  /\ scratchFiles' = Null
  /\ step' = "done"
  /\ UNCHANGED <<input, effectiveProfile, targetFiles, beforeByFile, afterByFile, report>>
  /\ Others("run")

ApplyNext ==
  \/ SelectProfile
  \/ ReadFiles
  \/ RunBiomeOnTargets
  \/ CopyToScratch
  \/ RunBiomeOnCopies
  \/ BiomeFails
  \/ NormalizeTargets
  \/ NormalizeCopies
  \/ BuildReport
  \/ RemoveScratch

SpecApply == ApplyInit /\ [][ApplyNext]_vars

-----------------------------------------------------------------------------
\* SpecAggregate: aggregateSignals on a list of per-file signal records.
\* src/core/aggregate.js, src/core/extractors/signals.js

MaxSignalFiles == 2

\* the counters of CounterNames that are summed
NUMERIC_SIGNAL_KEYS == CounterNames \ {"lineLengthMax"}

createSignals == Signals(<<>>, <<>>)

\* target.indentSpaceSizes after the loop over Object.entries(source.indentSpaceSizes)
AddSizes(targetSizes, sourceSizes) ==
  [width \in DOMAIN targetSizes \cup DOMAIN sourceSizes |->
     IF width \in DOMAIN sourceSizes
     THEN (IF width \in DOMAIN targetSizes THEN targetSizes[width] ELSE 0)
            + sourceSizes[width]
     ELSE targetSizes[width]]

\* A variant that also drains the source record.
AddSignalCountsMovingSource(target, from) ==
  [target |->
     [key \in DOMAIN target |->
        IF key \in NUMERIC_SIGNAL_KEYS THEN target[key] + from[key]
        ELSE IF key = "lineLengthMax" THEN Max(target[key], from[key])
        ELSE AddSizes(target[key], from[key])],
   source |-> createSignals]

\* Both objects as the call leaves them: the target is written, the source
\* is only read.
addSignalCounts(target, from) ==
  [target |->
     [key \in DOMAIN target |->
        IF key \in NUMERIC_SIGNAL_KEYS THEN target[key] + from[key]
        ELSE IF key = "lineLengthMax" THEN Max(target[key], from[key])
        ELSE AddSizes(target[key], from[key])],
   source |-> from]

\* The loop of aggregateSignals from the file at index on: out and the list
\* of records as the loop leaves them.
RECURSIVE AggregateFrom(_, _, _)
AggregateFrom(out, files, index) ==
  IF index > Len(files) THEN [out |-> out, files |-> files]
  ELSE AggregateFrom(addSignalCounts(out, files[index]).target,
                     [files EXCEPT ![index] = addSignalCounts(out, files[index]).source],
                     index + 1)

aggregateSignals(files) == AggregateFrom(createSignals, files, 1)

SampleCounts ==
  {("quotesSingle" :> 0), ("quotesSingle" :> 1),
   ("quotesSingle" :> 1) @@ ("quotesDouble" :> 2)}

SampleLineLengths == {0, 40, 85}

\* Per-file records: a few counters, a longest line and a histogram.
FileSignalRecords ==
  {Signals(counts @@ ("lineLengthMax" :> longest), sizes) :
     counts \in SampleCounts, longest \in SampleLineLengths, sizes \in Histograms}

AggregateInit ==
  /\ Idle("aggregate")
  /\ fileSignals \in UNION {[1 .. count -> FileSignalRecords] : count \in 0 .. MaxSignalFiles}
  /\ aggregated = Null

CallAggregateSignals ==
  /\ aggregated = Null
  /\ \E outcome \in {aggregateSignals(fileSignals)} :
       /\ aggregated' = outcome.out
       /\ fileSignals' = outcome.files
  /\ Others("aggregate")

AggregateNext == CallAggregateSignals

SpecAggregate == AggregateInit /\ [][AggregateNext]_vars

Orders(count) ==
  {order \in [1 .. count -> 1 .. count] : \A i, j \in 1 .. count : order[i] = order[j] => i = j}

RECURSIVE SumSeq(_)
SumSeq(numbers) ==
  IF numbers = <<>> THEN 0 ELSE Head(numbers) + SumSeq(Tail(numbers))

\* C16: the aggregate holds, per counter, the sum over the files; for the
\* longest line, the maximum over the files; for the indent histogram, per
\* width the sum over the files; it is the same for every order of the
\* files; and the records handed in are left as they were.
C16_AggregateSumsFiles ==
  /\ [](aggregated # Null =>
          /\ \A key \in NUMERIC_SIGNAL_KEYS :
               aggregated[key] = SumSeq([i \in 1 .. Len(fileSignals) |-> fileSignals[i][key]])
          /\ \A i \in 1 .. Len(fileSignals) :
               aggregated.lineLengthMax >= fileSignals[i].lineLengthMax
          /\ \/ aggregated.lineLengthMax = 0 /\ fileSignals = <<>>
             \/ \E i \in 1 .. Len(fileSignals) :
                  aggregated.lineLengthMax = fileSignals[i].lineLengthMax
          /\ DOMAIN aggregated.indentSpaceSizes =
               UNION {DOMAIN fileSignals[i].indentSpaceSizes : i \in 1 .. Len(fileSignals)}
          /\ \A width \in DOMAIN aggregated.indentSpaceSizes :
               aggregated.indentSpaceSizes[width] =
                 SumSeq([i \in 1 .. Len(fileSignals) |->
                           IF width \in DOMAIN fileSignals[i].indentSpaceSizes
                           THEN fileSignals[i].indentSpaceSizes[width] ELSE 0])
          /\ \A order \in Orders(Len(fileSignals)) :
               aggregateSignals([i \in 1 .. Len(fileSignals) |-> fileSignals[order[i]]]).out
                 = aggregated)
  /\ [][fileSignals' = fileSignals]_vars

\* Two files with different counters, longest lines and histograms were
\* aggregated.
C16_Witness ==
  /\ aggregated # Null
  /\ Len(fileSignals) = 2
  /\ fileSignals[1].quotesSingle = 1 /\ fileSignals[2].quotesDouble = 2
  /\ aggregated.quotesSingle = 2
  /\ fileSignals[1].lineLengthMax > fileSignals[2].lineLengthMax
  /\ fileSignals[1].indentSpaceSizes = (2 :> 1)
  /\ fileSignals[2].indentSpaceSizes = (4 :> 1) @@ (6 :> 1)

-----------------------------------------------------------------------------
\* SpecComment: applyInlineCommentStyle on sources of a few lines.

MaxCommentLines == 3

\* code with no comment, with a comment after one or three spaces, and with
\* a comment that follows the code directly
CommentTails ==
  {<<>>, <<" ", "/", "/", "c">>, <<" ", " ", " ", "/", "/", "c">>, <<"/", "/", "c">>}

CommentLines ==
  {code \o tail :
     code \in {<<"x", "=", "x">>, <<"x", "x", "=", "x">>, <<"R", "x">>},
     tail \in CommentTails}
  \cup {<<" ", "x", "=", "x">>, <<" ", "x", "=", "x", " ", "/", "/", "c">>,
        <<>>, <<"/", "/", "c">>}

CommentSources ==
  {JoinLines(lines) :
     lines \in UNION {[1 .. count -> CommentLines] : count \in 1 .. MaxCommentLines}}

CommentReferences == {Null, Str(<<"x", "=", "x", " ", " ", "/", "/", "c", "\n">>)}

CommentInit ==
  /\ normalizer = "applyInlineCommentStyle"
  /\ source \in CommentSources
  /\ ruleValue \in {Str("aligned"), Str("single-space")}
  /\ referenceSource \in CommentReferences
  /\ referenceSource # Null => ruleValue = Str("aligned")
  /\ indentKind = "space"
  /\ indentSize = DefaultIndentSize
  /\ replacements = <<>>
  /\ consumed = <<>>
  /\ outputs = <<>>
  /\ Idle("apply")

CallInlineCommentStyle ==
  /\ normalizer = "applyInlineCommentStyle"
  /\ outputs = <<>>
  /\ outputs' = <<applyInlineCommentStyle(source, ruleValue, referenceSource)>>
  /\ UNCHANGED <<normalizer, source, referenceSource, ruleValue, indentKind,
                 indentSize, replacements, consumed>>
  /\ Others("apply")

CommentNext == CallInlineCommentStyle

SpecComment == CommentInit /\ [][CommentNext]_vars

OutputLines == SplitLines(outputs[1], <<>>)

\* C17: in the output of the aligned style, the comments of every group of
\* two or more candidates start at the length of the group's longest code
\* text plus 2; in the output of the single-space style, every candidate's
\* comment follows its code after exactly one space.
C17_CommentsAlignedOrSingleSpaced ==
  (normalizer = "applyInlineCommentStyle" /\ outputs # <<>>) =>
    LET groups == InlineCommentGroups(OutputLines)
    IN /\ ruleValue = Str("aligned") =>
            \A g \in 1 .. Len(groups) :
              Len(groups[g]) >= 2 =>
                \A e \in 1 .. Len(groups[g]) :
                  CommentStart(groups[g][e].line) = MaxLeft(groups[g]) + 2
       /\ ruleValue = Str("single-space") =>
            \A g \in 1 .. Len(groups) :
              \A e \in 1 .. Len(groups[g]) :
                /\ CommentStart(groups[g][e].line) = Len(groups[g][e].left) + 1
                /\ CharAt(groups[g][e].line, Len(groups[g][e].left)) = " "

\* The aligned style moved the comments of a group of two lines with code
\* of different lengths to one column.
C17_Witness ==
  /\ normalizer = "applyInlineCommentStyle"
  /\ outputs # <<>>
  /\ outputs[1] # source
  /\ ruleValue = Str("aligned")
  /\ \E g \in 1 .. Len(InlineCommentGroups(OutputLines)) :
       /\ Len(InlineCommentGroups(OutputLines)[g]) >= 2
       /\ Len(InlineCommentGroups(OutputLines)[g][1].left)
            # Len(InlineCommentGroups(OutputLines)[g][2].left)

\* line.replace(/^\s*/, '')
TrimStart(line) == SliceFrom(line, LeadingWhitespace(line))

\* C18: after member-chain normalization without a reference and with space
\* indentation, every line of the output that begins with the access
\* operator starts at the column of the chain's object (the chains of the
\* model start at column 0) for the aligned style and one indent step
\* further for the indented style, and every line keeps the text it had
\* after its leading whitespace.
C18_ContinuationAtObjectColumn ==
  (/\ normalizer = "applyMemberExpressionIndentation"
   /\ outputs # <<>>
   /\ referenceSource = Null
   /\ ruleValue # Null
   /\ indentKind = "space"
   /\ parseAst(source) # Null) =>
    LET before == SplitLines(source, <<>>)
        after == SplitLines(outputs[1], <<>>)
    IN /\ Len(after) = Len(before)
       /\ \A n \in 1 .. Len(after) :
            /\ TrimStart(after[n]) = TrimStart(before[n])
            /\ CharAt(TrimStart(after[n]), 0) = "." =>
                 LeadingWhitespace(after[n]) =
                   IF ruleValue = Str("aligned") THEN 0 ELSE IndentStep(indentSize)

-----------------------------------------------------------------------------
\* SpecComma: applyVariableDeclarationCommaPlacement on declarations whose
\* declarators are separated on one line, with the comma before the line
\* break (trailing) or after it (leading), with a comment, or with the comma
\* on a line of its own.

MaxDeclarators == 3

CommaSeparators ==
  {<<",", " ">>, <<",", " ", "#", "\n", " ", " ">>, <<"\n", ",", "\n", " ", " ">>}
  \cup UNION {{<<",", "\n">> \o Repeat(" ", indent),
               <<" ", ",", "\n">> \o Repeat(" ", indent),
               <<"\n">> \o Repeat(" ", indent) \o <<",", " ">>,
               <<"\n">> \o Repeat(" ", indent) \o <<",">>} : indent \in 1 .. MaxIndent}

DeclaratorNames == <<"a", "b", "c", "d">>

RECURSIVE RenderDeclarators(_, _)
RenderDeclarators(separators, index) ==
  IF index > Len(separators) THEN <<>>
  ELSE separators[index] \o <<DeclaratorNames[index + 1]>>
         \o RenderDeclarators(separators, index + 1)

RenderDeclaration(separators) ==
  <<"v", " ", "a">> \o RenderDeclarators(separators, 1) \o <<";", "\n">>

CommaSources ==
  {RenderDeclaration(separators) :
     separators \in UNION {[1 .. count -> CommaSeparators] : count \in 1 .. MaxDeclarators - 1}}
  \cup {<<"v", " ", "a", ",", "\n">>}   \* no declarator after the comma

CommaInit ==
  /\ normalizer = "applyVariableDeclarationCommaPlacement"
  /\ source \in CommaSources
  /\ ruleValue \in {Null, Str("leading"), Str("trailing")}
  /\ referenceSource = Null
  /\ indentKind = "space"
  /\ indentSize = DefaultIndentSize
  /\ replacements = <<>>
  /\ consumed = <<>>
  /\ outputs = <<>>
  /\ Idle("apply")

CallVariableDeclarationCommaPlacement ==
  /\ normalizer = "applyVariableDeclarationCommaPlacement"
  /\ outputs = <<>>
  /\ \E outcome \in {applyVariableDeclarationCommaPlacement(source, ruleValue)} :
        /\ outputs' = <<outcome.output>>
        /\ replacements' = outcome.replacements
        /\ consumed' = outcome.consumed
  /\ UNCHANGED <<normalizer, source, referenceSource, ruleValue, indentKind,
                 indentSize>>
  /\ Others("apply")

CommaNext == CallVariableDeclarationCommaPlacement

SpecComma == CommaInit /\ [][CommaNext]_vars

\* the whitespace that opens the line the next item is on
ExistingIndentation(between) ==
  Slice(BeforeCommaLine(between), 0, LeadingWhitespace(BeforeCommaLine(between)))

CountCommas(text) == Cardinality({i \in 1 .. Len(text) : text[i] = ","})

\* C19: the output still holds the same declarators, exactly one comma
\* separates two of them, and a line-broken, comment-free pair is written,
\* with leading, as previous item, line break, the indentation the next
\* item's line had, comma, next item, and with trailing, as previous item,
\* comma, line break, that indentation, next item.
C19_CommaPlacementConverted ==
  (/\ normalizer = "applyVariableDeclarationCommaPlacement"
   /\ outputs # <<>>
   /\ ruleValue # Null
   /\ parseDeclarations(source) # Null) =>
    LET before == parseDeclarations(source).body[1]
        parsed == parseDeclarations(outputs[1])
    IN /\ parsed # Null
       /\ Len(parsed.body) = 1
       /\ Len(parsed.body[1]) = Len(before)
       /\ \A i \in 2 .. Len(before) :
            LET old == Slice(source, before[i - 1].end, before[i].start)
                new == Slice(outputs[1], parsed.body[1][i - 1].end,
                             parsed.body[1][i].start)
                indentation == ExistingIndentation(old)
            IN /\ CountCommas(new) = 1
               /\ (ruleValue = Str("leading") /\ ~HasComment(old) /\ IsTrailingComma(old)) =>
                    /\ Slice(new, 0, Len(indentation) + 2)
                         = <<"\n">> \o indentation \o <<",">>
                    /\ Trim(SliceFrom(new, Len(indentation) + 2)) = <<>>
                    /\ ~Includes(SliceFrom(new, Len(indentation) + 2), "\n")
               /\ (ruleValue = Str("trailing") /\ ~HasComment(old) /\ IsLeadingComma(old)) =>
                    new = <<",", "\n">> \o indentation

-----------------------------------------------------------------------------
\* What the first pass of SpecIf rewrote, read against the conditionals of
\* the source.

\* the statement that is the body of a conditional: the one statement of
\* its block when braces is set, the consequent itself otherwise; Null when
\* the conditional is of the other kind
BodyStatement(node, braces) ==
  IF braces
  THEN (IF TypeOf(Get(node, "consequent")) = "BlockStatement"
             /\ Len(Get(Get(node, "consequent"), "body").items) = 1
        THEN Get(Get(node, "consequent"), "body").items[1]
        ELSE Null)
  ELSE (IF TypeOf(Get(node, "consequent")) # "BlockStatement"
        THEN Get(node, "consequent")
        ELSE Null)

\* a conditional with one statement as its body and no alternate, the
\* condition on the keyword line, the body on the line below, and no
\* comment on either line
OneStatementBelow(s, node, braces) ==
  /\ BodyStatement(node, braces) # Null
  /\ Get(node, "alternate") = Null
  /\ StartLine(Get(node, "test")) = StartLine(node)
  /\ EndLine(Get(node, "test")) = StartLine(node)
  /\ StartLine(BodyStatement(node, braces)) = StartLine(node) + 1
  /\ EndLine(BodyStatement(node, braces)) = StartLine(node) + 1
  /\ ~HasComment(SplitLines(s, <<>>)[StartLine(node)])
  /\ ~HasComment(SplitLines(s, <<>>)[StartLine(node) + 1])

SetMax(S) == CHOOSE x \in S : \A y \in S : x >= y

FirstPassDone ==
  /\ normalizer = "applySingleLineIfStyle"
  /\ Len(outputs) = 1
  /\ ruleValue = Str("omit")
  /\ parseProgram(source) # Null

\* every range the first pass replaced is a conditional of the given kind,
\* from its keyword to the end of its body, and the text before the first
\* and after the last such range is as it was
RewritesOnly(braces) ==
  LET conditionals == IfStatementsIn(parseProgram(source).body)
      array == replacements[1]
      starts == {array[r].start : r \in 1 .. Len(array)}
      ends == {array[r].end : r \in 1 .. Len(array)}
  IN /\ \A r \in 1 .. Len(array) :
          \E n \in 1 .. Len(conditionals) :
            /\ StartOf(conditionals[n]) = array[r].start
            /\ EndOf(conditionals[n]) = array[r].end
            /\ OneStatementBelow(source, conditionals[n], braces)
     /\ IF array = <<>> THEN outputs[1] = source
        ELSE /\ Slice(outputs[1], 0, SetMin(starts)) = Slice(source, 0, SetMin(starts))
             /\ SliceFrom(outputs[1], Len(outputs[1]) - (Len(source) - SetMax(ends)))
                  = SliceFrom(source, SetMax(ends))

-----------------------------------------------------------------------------
\* SpecInfer: inferProfile applied to aggregates that exercise one dimension
\* at a time, over a range of configured thresholds wide enough to tell the
\* derived evidence floors apart.

MaxInferEvidence == 15
MaxInferCount == 3
MaxDensityLines == 20
MaxWidth == 10
MaxWidths == 2
MaxWidthCount == 2

InferCounts == 0 .. MaxInferCount
InferMinEvidences == 1 .. MaxInferEvidence
InferMinConfidences == {Zero, Pct(50), Pct(75), One}

PairAggregates(yesKey, noKey) ==
  {Signals((yesKey :> a) @@ (noKey :> b), <<>>) : a \in InferCounts, b \in InferCounts}

\* raw member-chain counts with at most one vote on each side; a file that
\* votes for a style holds at least 2 observations of it
MemberAggregates ==
  {Signals(("memberExprAligned" :> x[1]) @@ ("memberExprIndented" :> x[2]) @@
           ("memberExprAlignedFiles" :> x[3]) @@ ("memberExprIndentedFiles" :> x[4]),
           <<>>) :
     x \in {y \in InferCounts \X InferCounts \X (0 .. 1) \X (0 .. 1) :
              2 * y[3] <= y[1] /\ 2 * y[4] <= y[2]}}

ThresholdAggregates ==
  UNION {PairAggregates(BinaryRules[p].yes, BinaryRules[p].no) : p \in DOMAIN BinaryRules}
  \cup PairAggregates("switchCaseBreakMatchCase", "switchCaseBreakIndented")
  \cup MemberAggregates

InferStart ==
  /\ pc = "start"
  /\ sampledFiles = 0
  /\ profile = NoCall
  /\ processed = {}
  /\ applied = 0
  /\ llmRuleSuggestionsApplied = Null
  /\ confidenceSummary = Null
  /\ lastSuggestion = Null
  /\ Idle("learn")

ThresholdInit ==
  /\ aggregate \in ThresholdAggregates
  /\ minEvidence \in InferMinEvidences
  /\ minConfidence \in InferMinConfidences
  /\ InferStart

\* files of up to MaxDensityLines lines, any number of them blank
DensityAggregates ==
  {Signals(("blankLines" :> x[1]) @@ ("totalLines" :> x[2]), <<>>) :
     x \in {y \in (0 .. MaxDensityLines) \X (0 .. MaxDensityLines) : y[1] <= y[2]}}

DensityInit ==
  /\ aggregate \in DensityAggregates
  /\ minEvidence \in InferMinEvidences
  /\ minConfidence \in InferMinConfidences
  /\ InferStart

\* Histograms of leading-space widths: up to MaxWidths distinct widths, each
\* seen on at least one line, and the two histograms of the documentation.
WidthSets ==
  {widths \in SUBSET (1 .. MaxWidth) : widths # {} /\ Cardinality(widths) <= MaxWidths}

WidthHistograms ==
  UNION {[widths -> 1 .. MaxWidthCount] : widths \in WidthSets}
  \cup {(4 :> 5) @@ (6 :> 5), (2 :> 10)}

\* collectLineLayoutSignals counts a line in indentSpaceLines and in the
\* histogram together
HistogramAggregates ==
  {Signals(("indentSpaceLines" :> SumOver(sizes, DOMAIN sizes)), sizes) :
     sizes \in WidthHistograms}

HistogramInit ==
  /\ aggregate \in HistogramAggregates
  /\ minEvidence = 1
  /\ minConfidence = Zero
  /\ InferStart

InferInit == ThresholdInit \/ DensityInit \/ HistogramInit

InferNext == InferProfile

SpecInfer == InferInit /\ [][InferNext]_vars

\* The rule at path p is enforced exactly when the winning count of its two
\* counters reaches the floor and its share reaches the configured confidence.
GatedBy(p, floor) ==
  LET yes == aggregate[BinaryRules[p].yes]
      no == aggregate[BinaryRules[p].no]
      winner == Max(yes, no)
  IN (profile[p].status = "enforced") <=>
       (yes + no > 0 /\ winner >= floor /\ FracGeq(Frac(winner, yes + no), minConfidence))

\* C22 as stated: comment framing, inline-comment alignment and
\* multiline-ternary placement are each gated by the sparse floor
\* (minEvidence / 3) or by the ultra-sparse floor (minEvidence / 5), both
\* taken, as the code does, rounded down and not below 2.
C22_TwoReducedFloors ==
  pc = "inferred" =>
    \A p \in {"comments.commentBlockFraming",
               "comments.trailingInlineCommentAlignment",
               "syntax.multilineTernaryOperatorPlacement"} :
      \/ GatedBy(p, Max(2, minEvidence \div 3))
      \/ GatedBy(p, Max(2, minEvidence \div 5))

\* C22 amended: comment framing is gated by max(2, floor(minEvidence / 3)),
\* inline-comment alignment by max(2, floor(minEvidence / 5)), and
\* multiline-ternary placement by a third floor, max(2, floor(minEvidence / 10)).
C22_ThreeReducedFloors ==
  pc = "inferred" =>
    /\ GatedBy("comments.commentBlockFraming", Max(2, minEvidence \div 3))
    /\ GatedBy("comments.trailingInlineCommentAlignment", Max(2, minEvidence \div 5))
    /\ GatedBy("syntax.multilineTernaryOperatorPlacement", Max(2, minEvidence \div 10))

\* Two multiline ternaries, all leading, with minEvidence 15: below the
\* ultra-sparse floor of 3 and enforced all the same.
C22_Witness ==
  /\ pc = "inferred"
  /\ minEvidence \div 5 > 2
  /\ aggregate.ternaryMultilineLeading = 2
  /\ aggregate.ternaryMultilineTrailing = 0
  /\ profile["syntax.multilineTernaryOperatorPlacement"].status = "enforced"

-----------------------------------------------------------------------------
\* SpecVotes: learnStyle from the extraction of each sampled file to the
\* inferred profile, for files that differ in their member-chain
\* observations.

MaxVoteFiles == 2
MaxVoteCount == 2
MaxVoteEvidence == 3

VoteCounts == 0 .. MaxVoteCount
VoteMinEvidences == 1 .. MaxVoteEvidence
VoteMinConfidences == {Pct(50), Pct(75)}

\* A variant that lets a single observation cast the vote of its file.
FinalizeWithoutMinimum(signals) ==
  IF signals.memberExprAligned > signals.memberExprIndented
  THEN [signals EXCEPT !.memberExprAlignedFiles = @ + 1]
  ELSE IF signals.memberExprIndented > signals.memberExprAligned
  THEN [signals EXCEPT !.memberExprIndentedFiles = @ + 1]
  ELSE signals

finalizeMemberExpressionVotes(signals) ==
  LET comparable == signals.memberExprAligned + signals.memberExprIndented
  IN IF comparable < 2 THEN signals
     ELSE IF signals.memberExprAligned > signals.memberExprIndented
     THEN [signals EXCEPT !.memberExprAlignedFiles = @ + 1]
     ELSE IF signals.memberExprIndented > signals.memberExprAligned
     THEN [signals EXCEPT !.memberExprIndentedFiles = @ + 1]
     ELSE signals

VotesInit ==
  /\ pc = "sampling"
  /\ aggregate = NoCall
  /\ minEvidence \in VoteMinEvidences
  /\ minConfidence \in VoteMinConfidences
  /\ sampledFiles = 0
  /\ profile = NoCall
  /\ processed = {}
  /\ applied = 0
  /\ llmRuleSuggestionsApplied = Null
  /\ confidenceSummary = Null
  /\ lastSuggestion = Null
  /\ fileSignals = <<>>
  /\ aggregated = Null
  /\ RuleIdle
  /\ ApplyIdle
  /\ RunIdle

\* extractFileSignals for one sampled file: one count per continuation line
\* classified as aligned or indented, then the vote of the file.
ExtractFileSignals ==
  /\ pc = "sampling"
  /\ Len(fileSignals) < MaxVoteFiles
  /\ \E aligned \in VoteCounts, indented \in VoteCounts :
       fileSignals' =
         Append(fileSignals,
                finalizeMemberExpressionVotes(
                  Signals(("memberExprAligned" :> aligned) @@
                          ("memberExprIndented" :> indented), <<>>)))
  /\ UNCHANGED <<learnVars, aggregated, ruleVars, applyVars, runVars>>

\* No file was parsed: learnStyle throws.
NoParsableFiles ==
  /\ pc = "sampling"
  /\ fileSignals = <<>>
  /\ pc' = "failed"
  /\ UNCHANGED <<aggregate, minEvidence, minConfidence, sampledFiles, profile,
                 processed, applied, llmRuleSuggestionsApplied, confidenceSummary,
                 lastSuggestion, aggregateVars, ruleVars, applyVars, runVars>>

\* aggregateSignals(fileSignals), then inferProfile on the aggregate
AggregateAndInfer ==
  /\ pc = "sampling"
  /\ fileSignals # <<>>
  /\ \E outcome \in {aggregateSignals(fileSignals)} :
       /\ aggregate' = outcome.out
       /\ fileSignals' = outcome.files
       /\ profile' = inferProfile(outcome.out, minEvidence, minConfidence)
       /\ confidenceSummary' =
            confidenceSummaryOf(inferProfile(outcome.out, minEvidence, minConfidence))
  /\ sampledFiles' = Len(fileSignals)
  /\ pc' = "inferred"
  /\ UNCHANGED <<minEvidence, minConfidence, processed, applied,
                 llmRuleSuggestionsApplied, lastSuggestion, aggregated,
                 ruleVars, applyVars, runVars>>

VotesNext ==
  \/ ExtractFileSignals
  \/ NoParsableFiles
  \/ AggregateAndInfer

SpecVotes == VotesInit /\ [][VotesNext]_vars

FileVotes(signals) == signals.memberExprAlignedFiles + signals.memberExprIndentedFiles

\* the counter summed over the files
OverFiles(key) == SumSeq([i \in DOMAIN fileSignals |-> fileSignals[i][key]])

\* C23: each file holds at most one member-chain vote, holds one only when
\* it has at least 2 comparable chain observations, and then for the style
\* of the majority of them; the inferred rule takes its evidence, confidence
\* and value from the votes of the files when there is at least one vote and
\* from the raw counts of the files when there is none.
C23_FileVotesDecide ==
  /\ \A i \in DOMAIN fileSignals :
       LET signals == fileSignals[i]
       IN /\ FileVotes(signals) <= 1
          /\ FileVotes(signals) = 1 =>
               signals.memberExprAligned + signals.memberExprIndented >= 2
          /\ signals.memberExprAlignedFiles = 1 =>
               signals.memberExprAligned > signals.memberExprIndented
          /\ signals.memberExprIndentedFiles = 1 =>
               signals.memberExprIndented > signals.memberExprAligned
  /\ pc = "inferred" =>
       LET votes == OverFiles("memberExprAlignedFiles") + OverFiles("memberExprIndentedFiles")
           yes == IF votes > 0 THEN OverFiles("memberExprAlignedFiles")
                  ELSE OverFiles("memberExprAligned")
           no == IF votes > 0 THEN OverFiles("memberExprIndentedFiles")
                 ELSE OverFiles("memberExprIndented")
           memberRule == profile["whitespace.memberExpressionIndentation"]
       IN /\ memberRule.evidenceCount = Max(yes, no)
          /\ yes + no = 0 => memberRule.status = "undetermined"
          /\ yes + no > 0 => FracEq(memberRule.confidence, Frac(Max(yes, no), yes + no))
          /\ memberRule.status = "enforced" =>
               memberRule.value = IF yes >= no THEN Str("aligned") ELSE Str("indented")

\* One file votes for the indented style, the raw counts of all files tie
\* (which would read as aligned), and the rule is enforced as indented.
C23_Witness ==
  /\ pc = "inferred"
  /\ OverFiles("memberExprAlignedFiles") = 0
  /\ OverFiles("memberExprIndentedFiles") = 1
  /\ OverFiles("memberExprAligned") >= OverFiles("memberExprIndented")
  /\ profile["whitespace.memberExpressionIndentation"].status = "enforced"
  /\ profile["whitespace.memberExpressionIndentation"].value = Str("indented")

-----------------------------------------------------------------------------
\* SpecExtract: extractFileSignals on programs made of expression
\* statements, returns and conditionals, with and without blank lines
\* between them. The visitors modelled are those these programs reach
\* (IfStatement, ReturnStatement, ExpressionStatement); the line-layout and
\* comment collectors write other counters and are left out.

MaxStatements == 2

hasBlankLineBefore(lineNumber, lines) ==
  IF lineNumber <= 1 THEN FALSE
  ELSE /\ lineNumber - 1 <= Len(lines)
       /\ \A i \in 1 .. Len(lines[lineNumber - 1]) : IsWhitespace(lines[lineNumber - 1][i])

Bump(signals, key) == [signals EXCEPT ![key] = @ + 1]

ProgramNode(body) == JObj(<<Entry("type", Str("Program")), Entry("body", JArr(body))>>)

\* const hasSemi = source[end - 1] === ';'
SemicolonStats(s, node, signals) ==
  IF EndOf(node) < 1 THEN signals
  ELSE IF CharAt(s, EndOf(node) - 1) = ";" THEN Bump(signals, "semicolonsYes")
  ELSE Bump(signals, "semicolonsNo")

\* The IfStatement visitor up to the blank-line observation. The tests of
\* these programs are identifiers, on which updateYodaStats records nothing.
IfBlankLineStats(node, parent, lines, signals) ==
  LET partOfElseChain ==
        /\ TypeOf(parent) = "IfStatement"
        /\ Get(parent, "alternate") = node
  IN IF partOfElseChain THEN signals
     ELSE IF hasBlankLineBefore(StartLine(node), lines)
     THEN Bump(signals, "blankLineBeforeIfYes")
     ELSE Bump(signals, "blankLineBeforeIfNo")

\* The rest of the IfStatement visitor: one-statement conditionals on one line
IfBraceStats(node, signals) ==
  LET consequent == Get(node, "consequent")
  IN IF Get(node, "alternate") # Null THEN signals
     ELSE IF TypeOf(consequent) = "BlockStatement"
     THEN (IF Len(Get(consequent, "body").items) # 1 THEN signals
           ELSE IF StartLine(node) # EndLine(node) THEN signals
           ELSE Bump(signals, "ifWithBraces"))
     ELSE IF StartLine(node) # StartLine(consequent)
             \/ StartLine(consequent) # EndLine(consequent)
     THEN signals
     ELSE Bump(signals, "ifWithoutBraces")

IfStatementVisitor(node, parent, lines, signals) ==
  IfBraceStats(node, IfBlankLineStats(node, parent, lines, signals))

ReturnStatementVisitor(s, node, parent, lines, signals) ==
  IF EndOf(node) < 1 THEN signals
  ELSE LET counted == SemicolonStats(s, node, signals)
           parentBodyLength ==
             IF TypeOf(parent) = "BlockStatement" THEN Len(Get(parent, "body").items)
             ELSE 0
       IN IF parentBodyLength > 1
          THEN (IF hasBlankLineBefore(StartLine(node), lines)
                THEN Bump(counted, "blankLineBeforeReturnYes")
                ELSE Bump(counted, "blankLineBeforeReturnNo"))
          ELSE counted

\* traverse: the visitor of a node, then its children in order
RECURSIVE Traverse(_, _, _, _, _)
RECURSIVE TraverseAll(_, _, _, _, _)
TraverseAll(nodes, parent, s, lines, signals) ==
  IF nodes = <<>> THEN signals
  ELSE TraverseAll(Tail(nodes), parent, s, lines,
                   Traverse(Head(nodes), parent, s, lines, signals))

Traverse(node, parent, s, lines, signals) ==
  CASE TypeOf(node) = "IfStatement" ->
         TraverseAll(
           <<Get(node, "consequent")>> \o
             (IF Get(node, "alternate") = Null THEN <<>> ELSE <<Get(node, "alternate")>>),
           node, s, lines, IfStatementVisitor(node, parent, lines, signals))
    [] TypeOf(node) = "BlockStatement" ->
         TraverseAll(Get(node, "body").items, node, s, lines, signals)
    [] TypeOf(node) = "ReturnStatement" ->
         ReturnStatementVisitor(s, node, parent, lines, signals)
    [] TypeOf(node) = "ExpressionStatement" -> SemicolonStats(s, node, signals)
    [] OTHER -> signals

extractFileSignals(s, ast) ==
  LET lines == SplitLines(s, <<>>)
  IN TraverseAll(ast.body, ProgramNode(ast.body), s, lines,
                 [createSignals EXCEPT !.totalLines = Len(lines)])

StatementKinds == {"expression", "return", "if", "elseIf"}
BlankKinds == {"none", "empty", "spaces"}

StatementLayouts ==
  UNION {[1 .. count -> [kind : StatementKinds, blank : BlankKinds]] :
           count \in 1 .. MaxStatements}

RenderStatementLine(layout, pad) ==
  (CASE layout.blank = "none" -> <<>>
     [] layout.blank = "empty" -> <<"\n">>
     [] OTHER -> <<" ", " ", "\n">>)
  \o pad \o
  (CASE layout.kind = "expression" -> <<"c", ";">>
     [] layout.kind = "return" -> <<"r", ";">>
     [] layout.kind = "if" -> <<"i", " ", "(", "a", ")", " ", "c", ";">>
     [] OTHER -> <<"i", " ", "(", "a", ")", " ", "c", ";", "\n">> \o pad \o
                 <<"E", " ", "i", " ", "(", "b", ")", " ", "d", ";">>)
  \o <<"\n">>

RECURSIVE RenderStatementLines(_, _)
RenderStatementLines(layouts, pad) ==
  IF layouts = <<>> THEN <<>>
  ELSE RenderStatementLine(Head(layouts), pad) \o RenderStatementLines(Tail(layouts), pad)

\* the statements at the top of the program, or wrapped in one block
ExtractSources ==
  {RenderStatementLines(layouts, <<>>) : layouts \in StatementLayouts} \cup
  {<<"{", "\n">> \o RenderStatementLines(layouts, <<" ", " ">>) \o <<"}", "\n">> :
     layouts \in StatementLayouts}

ExtractInit ==
  /\ source \in ExtractSources
  /\ normalizer = "extractFileSignals"
  /\ referenceSource = Null
  /\ ruleValue = Null
  /\ indentKind = "space"
  /\ indentSize = 0
  /\ replacements = <<>>
  /\ consumed = <<>>
  /\ outputs = <<>>
  /\ fileSignals = <<>>
  /\ aggregated = Null
  /\ RuleIdle
  /\ LearnIdle
  /\ RunIdle

\* parseSourceFile, then extractFileSignals; a file that does not parse is skipped
CallExtractFileSignals ==
  /\ normalizer = "extractFileSignals"
  /\ fileSignals = <<>>
  /\ parseProgram(source) # Null
  /\ fileSignals' = <<extractFileSignals(source, parseProgram(source))>>
  /\ UNCHANGED <<applyVars, aggregated, ruleVars, learnVars, runVars>>

ExtractNext == CallExtractFileSignals

SpecExtract == ExtractInit /\ [][ExtractNext]_vars

\* The statements of the given type under a node that sit in a block of at
\* least 2 statements and are not its first statement; a conditional that is
\* the alternate of another is part of that one.
RECURSIVE EligibleIn(_, _, _, _)
RECURSIVE EligibleAmong(_, _, _, _)
EligibleAmong(nodes, index, parent, type) ==
  IF index > Len(nodes) THEN <<>>
  ELSE EligibleIn(nodes[index], index, parent, type)
         \o EligibleAmong(nodes, index + 1, parent, type)

EligibleIn(node, index, parent, type) ==
  (IF /\ TypeOf(node) = type
      /\ TypeOf(parent) = "BlockStatement"
      /\ Len(Get(parent, "body").items) >= 2
      /\ index > 1
   THEN <<node>> ELSE <<>>)
  \o (CASE TypeOf(node) = "IfStatement" ->
            EligibleIn(Get(node, "consequent"), 1, node, type)
              \o (IF Get(node, "alternate") = Null THEN <<>>
                  ELSE EligibleIn(Get(node, "alternate"), 1, node, type))
        [] TypeOf(node) = "BlockStatement" ->
            EligibleAmong(Get(node, "body").items, 1, node, type)
        [] OTHER -> <<>>)

Eligible(type) ==
  LET ast == parseProgram(source)
  IN EligibleAmong(ast.body, 1, ProgramNode(ast.body), type)

BlankBefore(nodes) ==
  Cardinality({i \in 1 .. Len(nodes) :
                 hasBlankLineBefore(StartLine(nodes[i]), SplitLines(source, <<>>))})

\* C24: the blank-line-before-return and blank-line-before-conditional
\* observations of a file are one per return, respectively conditional, that
\* sits in a block of at least 2 statements and is not the first of it; the
\* 'yes' ones are those whose preceding source line is blank.
C24_RecordedOnlyAfterAStatement ==
  fileSignals # <<>> =>
    LET signals == fileSignals[1]
    IN /\ signals.blankLineBeforeReturnYes + signals.blankLineBeforeReturnNo
            = Len(Eligible("ReturnStatement"))
       /\ signals.blankLineBeforeReturnYes = BlankBefore(Eligible("ReturnStatement"))
       /\ signals.blankLineBeforeIfYes + signals.blankLineBeforeIfNo
            = Len(Eligible("IfStatement"))
       /\ signals.blankLineBeforeIfYes = BlankBefore(Eligible("IfStatement"))

-----------------------------------------------------------------------------
\* The density rule, checked under SpecInfer.

\* 1 - min(|ratio - target|, 0.2) for ratio = blank / total, as a fraction
DensityConfidence(blank, total, target) ==
  LET difference == FracSub(Frac(blank, total), Pct(target))
      distance == IF difference.num < 0 THEN Frac(-difference.num, difference.den)
                  ELSE difference
  IN FracSub(One, IF FracGeq(distance, Pct(20)) THEN Pct(20) ELSE distance)

\* C25: with a total of zero the density rule is undetermined with
\* confidence 0; otherwise its confidence is 1 - min(|ratio - target|, 0.2),
\* the target being 0.12 when the ratio is <= 0.15 (compact) and 0.25
\* otherwise (spacious), it is enforced only when the total is >= minEvidence
\* (and exactly when, besides, the confidence is >= minConfidence), and an
\* enforced rule carries the style picked.
C25_DensityRule ==
  (pc = "inferred" /\ aggregate \in DensityAggregates) =>
    LET blank == aggregate.blankLines
        total == aggregate.totalLines
        compact == FracGeq(Pct(15), Frac(blank, total))
        density == profile["whitespace.blankLineDensity"]
    IN IF total = 0
       THEN /\ density.status = "undetermined"
            /\ density.confidence = Zero
            /\ density.value = Null
       ELSE /\ FracEq(density.confidence,
                      DensityConfidence(blank, total, IF compact THEN 12 ELSE 25))
            /\ density.status = "enforced" <=>
                 (total >= minEvidence /\ FracGeq(density.confidence, minConfidence))
            /\ density.status = "enforced" =>
                 density.value = IF compact THEN Str("compact") ELSE Str("spacious")

\* A ratio of exactly 0.15, enforced as compact with confidence 0.97.
C25_Witness ==
  /\ pc = "inferred"
  /\ aggregate.totalLines > 0
  /\ 100 * aggregate.blankLines = 15 * aggregate.totalLines
  /\ profile["whitespace.blankLineDensity"].status = "enforced"
  /\ profile["whitespace.blankLineDensity"].value = Str("compact")
  /\ FracEq(profile["whitespace.blankLineDensity"].confidence, Pct(97))

-----------------------------------------------------------------------------
\* The indent-unit estimator, checked under SpecInfer on the aggregates of
\* HistogramInit, whose indentation kind is always enforced as 'space'.

IndentUnit == profile["whitespace.indentationSize"].value.v
ObservedWidths == DOMAIN aggregate.indentSpaceSizes

Divides(d, S) == \A w \in S : w % d = 0
GreatestCommonDivisor(S) ==
  CHOOSE d \in 1 .. SetMax(S) : Divides(d, S) /\ \A e \in 1 .. SetMax(S) : Divides(e, S) => e <= d

\* total count of the observed widths evenly divisible by the candidate
DivisibleCount(candidate) ==
  SumOver(aggregate.indentSpaceSizes, {w \in ObservedWidths : w % candidate = 0})

\* C26: the estimator returns the greatest common divisor of the observed
\* widths when it lies in [2,8]; otherwise a candidate among {2,4,8} with the
\* largest total count of widths evenly divisible by it, if that total is > 0;
\* otherwise the smallest observed width. {4:5, 6:5} gives 2 and {2:10} gives 2.
C26_IndentUnit ==
  (pc = "inferred" /\ aggregate \in HistogramAggregates) =>
    LET divisor == GreatestCommonDivisor(ObservedWidths)
    IN /\ IF divisor >= 2 /\ divisor <= 8 THEN IndentUnit = divisor
          ELSE IF \E candidate \in {2, 4, 8} : DivisibleCount(candidate) > 0
          THEN /\ IndentUnit \in {2, 4, 8}
               /\ \A candidate \in {2, 4, 8} :
                    DivisibleCount(IndentUnit) >= DivisibleCount(candidate)
          ELSE IndentUnit = SetMin(ObservedWidths)
       /\ aggregate.indentSpaceSizes = (4 :> 5) @@ (6 :> 5) => IndentUnit = 2
       /\ aggregate.indentSpaceSizes = (2 :> 10) => IndentUnit = 2

\* The histogram {4:5, 6:5}, whose widths are both multiples of 2 only.
C26_Witness ==
  /\ pc = "inferred"
  /\ aggregate.indentSpaceSizes = (4 :> 5) @@ (6 :> 5)
  /\ profile["whitespace.indentationSize"].status = "enforced"
  /\ IndentUnit = 2

\* C30: for a non-empty histogram of positive widths whose greatest common
\* divisor is outside [2,8], the estimator returns 2 when at least one
\* observed width is even and the smallest observed width otherwise, so never
\* 4 or 8; the result is always a positive integer.
C30_OutsideRangeTwoOrSmallest ==
  (pc = "inferred" /\ aggregate \in HistogramAggregates) =>
    LET divisor == GreatestCommonDivisor(ObservedWidths)
    IN /\ IndentUnit \in Nat \ {0}
       /\ (divisor < 2 \/ divisor > 8) =>
            /\ IndentUnit = IF \E w \in ObservedWidths : w % 2 = 0 THEN 2
                            ELSE SetMin(ObservedWidths)
            /\ IndentUnit \notin {4, 8}

\* Widths 4 and 8 next to an odd width: every candidate divides some width,
\* 2 is returned.
C30_Witness ==
  /\ pc = "inferred"
  /\ aggregate \in HistogramAggregates
  /\ GreatestCommonDivisor(ObservedWidths) = 1
  /\ \E w \in ObservedWidths : w % 8 = 0
  /\ IndentUnit = 2

-----------------------------------------------------------------------------
\* The thresholds derived per dimension against the configured ones, checked
\* under SpecInfer.

\* the configured thresholds are met by the two counts
MeetsConfigured(yes, no) ==
  /\ yes + no > 0
  /\ Max(yes, no) >= minEvidence
  /\ FracGeq(Frac(Max(yes, no), yes + no), minConfidence)

MemberVotes == aggregate.memberExprAlignedFiles + aggregate.memberExprIndentedFiles

\* C27: no dimension is held to a stricter threshold than the configured
\* pair: whenever the counts a dimension is decided from reach minEvidence
\* and minConfidence, its rule is enforced.
C27_NeverStricterThanConfigured ==
  (pc = "inferred" /\ aggregate \in ThresholdAggregates) =>
    /\ \A p \in DOMAIN BinaryRules :
         MeetsConfigured(aggregate[BinaryRules[p].yes], aggregate[BinaryRules[p].no]) =>
           profile[p].status = "enforced"
    /\ MeetsConfigured(aggregate.switchCaseBreakMatchCase, aggregate.switchCaseBreakIndented) =>
         profile["whitespace.switchCaseBreakIndentation"].status = "enforced"
    /\ MeetsConfigured(IF MemberVotes > 0 THEN aggregate.memberExprAlignedFiles
                       ELSE aggregate.memberExprAligned,
                       IF MemberVotes > 0 THEN aggregate.memberExprIndentedFiles
                       ELSE aggregate.memberExprIndented) =>
         profile["whitespace.memberExpressionIndentation"].status = "enforced"

-----------------------------------------------------------------------------
\* Auto-fix safety across augmentation, checked under SpecLearn.

\* the paths safe-only mode suppresses in a table of rules
Suppressed(rules) == {p \in DOMAIN rules : rules[p].autoFixSafe # TRUE}

\* C28: at every step of the augmentation loop each rule carries the
\* autoFixSafe flag deterministic inference gave its dimension, so safe-only
\* mode suppresses the same rules before and after augmentation.
C28_AutoFixSafeUnchanged ==
  pc \in {"augmenting", "done"} =>
    LET inferred == inferProfile(aggregate, minEvidence, minConfidence)
    IN /\ \A p \in RulePaths : profile[p].autoFixSafe = inferred[p].autoFixSafe
       /\ Suppressed(profile) = Suppressed(inferred)

-----------------------------------------------------------------------------
\* The confidence summary against the rules, checked under SpecLearn.

\* C29: in the profile inference returns and at every step of the
\* augmentation loop, confidenceSummary.byRule holds the confidence of each
\* rule and confidenceSummary.overall is the mean of those values.
C29_SummaryAgreesWithRules ==
  pc \in {"inferred", "augmenting", "done"} =>
    /\ \A p \in RulePaths :
         FracEq(confidenceSummary.byRule[p], profile[p].confidence)
    /\ confidenceSummary.overall =
         LET sum == SumConfidences(profile, RulePaths)
         IN FracReduce(Frac(sum.num, sum.den * Cardinality(RulePaths)))

====
